---- MODULE Spec2Model ----
(***************************************************************************)
(* A model of the calcifer policy engine: the policy tree (tree.py), the   *)
(* Partial (tree + scope pointer, partial.py), the List/StateT evaluation  *)
(* substrate (monads.py) and the policy operators (operators.py).          *)
(*                                                                         *)
(* Python strings are sequences of one-character strings, so that the      *)
(* conversions path -> scope string -> path are modelled by what they do.  *)
(* Python values are tagged records ([py |-> ...]); policy nodes are       *)
(* tagged records ([kind |-> ...]).                                        *)
(***************************************************************************)
EXTENDS Integers, Sequences, FiniteSets, TLC

\* The fields of the records of this module, numbered in the order in which
\* every record lists them
FieldOrder == [
    py |-> 1, kind |-> 2, dkind |-> 3, op |-> 4, lam |-> 5, exc |-> 6,
    matches |-> 7, has_catch |-> 8, s |-> 9, items |-> 10, map |-> 11,
    definition |-> 12, nodes |-> 13, node |-> 14, root |-> 15, path |-> 16,
    value |-> 17, values |-> 18, partial |-> 19, list |-> 20,
    selector |-> 21, set_path |-> 22, rule |-> 23, rules |-> 24,
    rule_func |-> 25, rule_funcs |-> 26, left |-> 27, right |-> 28,
    func |-> 29, catch |-> 30, suffix |-> 31, probes |-> 32, ref |-> 33,
    name |-> 34, context |-> 35, wrapper |-> 36, ctx_args |-> 37,
    ctx_name |-> 38, ctx |-> 39, missing |-> 40, got |-> 41, args |-> 42,
    item |-> 43, num_ctx_args |-> 44, ctx_value |-> 45, mode |-> 46,
    result |-> 47, stack |-> 48, frame |-> 49, todo |-> 50, acc |-> 51,
    to_scope |-> 52
]

(***************************************************************************)
(* Python values                                                           *)
(***************************************************************************)
PyNone == [py |-> "None"]
PyStr(s) == [py |-> "str", s |-> s]
PyList(items) == [py |-> "list", items |-> items]
PyDict(map) == [py |-> "dict", map |-> map]
PyBool(b) == [py |-> "bool", value |-> b]
PyInt(n) == [py |-> "int", value |-> n]

\* ContextFrame(name, ast): the name of a builder and the syntax of its rule
ContextFrame(name, ast) == [py |-> "frame", rule |-> ast, name |-> name]

\* Python truthiness (`if not value`) of a value a rule can carry; a policy
\* node is an object without __len__/__nonzero__, hence truthy.
Truthy(v) ==
    IF "py" \notin DOMAIN v THEN TRUE
    ELSE CASE v.py = "None" -> FALSE
           [] v.py = "str" -> v.s # <<>>
           [] v.py = "list" -> v.items # <<>>
           [] v.py = "dict" -> DOMAIN v.map # {}
           [] v.py = "bool" -> v.value
           [] v.py = "int" -> v.value # 0
           [] OTHER -> TRUE

(***************************************************************************)
(* Strings: str.split, str.join, os.path.normpath/relpath (POSIX)          *)
(***************************************************************************)
SLASH == "/"
DOT == "."
DOTDOT == <<DOT, DOT>>

\* s.split('/') : the list of the (possibly empty) pieces between slashes
RECURSIVE SplitFrom(_, _, _)
SplitFrom(s, i, cur) ==
    IF i > Len(s) THEN <<cur>>
    ELSE IF s[i] = SLASH THEN <<cur>> \o SplitFrom(s, i + 1, <<>>)
    ELSE SplitFrom(s, i + 1, Append(cur, s[i]))

Split(s) == SplitFrom(s, 1, <<>>)

\* "/".join(parts)
RECURSIVE Join(_)
Join(parts) ==
    IF parts = <<>> THEN <<>>
    ELSE IF Len(parts) = 1 THEN parts[1]
    ELSE parts[1] \o <<SLASH>> \o Join(Tail(parts))

\* The components of os.path.abspath(p) for an absolute p, as
\* [x for x in abspath(p).split('/') if x]: empty and "." pieces are dropped,
\* ".." removes the piece before it and is dropped at the root.
DropLast(seq) == IF seq = <<>> THEN seq ELSE SubSeq(seq, 1, Len(seq) - 1)

RECURSIVE NormPieces(_, _)
NormPieces(pieces, acc) ==
    IF pieces = <<>> THEN acc
    ELSE IF Head(pieces) = <<>> \/ Head(pieces) = <<DOT>>
         THEN NormPieces(Tail(pieces), acc)
         ELSE IF Head(pieces) = DOTDOT
              THEN NormPieces(Tail(pieces), DropLast(acc))
              ELSE NormPieces(Tail(pieces), Append(acc, Head(pieces)))

AbsPieces(p) == NormPieces(Split(p), <<>>)

\* len(os.path.commonprefix([a, b])) for two lists
RECURSIVE CommonPrefixLen(_, _)
CommonPrefixLen(a, b) ==
    IF a = <<>> \/ b = <<>> \/ Head(a) # Head(b) THEN 0
    ELSE 1 + CommonPrefixLen(Tail(a), Tail(b))

\* rel_list = ['..'] * (len(start_list) - i) + path_list[i:], joined, or '.'
RelList(start_list, path_list, i) ==
    [k \in 1..(Len(start_list) - i) |-> DOTDOT] \o SubSeq(path_list, i + 1, Len(path_list))

JoinOrDot(rel_list) == IF rel_list = <<>> THEN <<DOT>> ELSE Join(rel_list)

relpath_lists(start_list, path_list) ==
    JoinOrDot(RelList(start_list, path_list, CommonPrefixLen(start_list, path_list)))

\* os.path.relpath(path, start) for absolute path and start
relpath(path, start) == relpath_lists(AbsPieces(start), AbsPieces(path))

\* Steps of a path are strings or ints.  An int step is written with the
\* marker INT in front of its digits; the digit strings of the model are
\* the strings of zeros, whose int is 0.
DIGITS == {"0"}
INT == "int:"
IntValue(digits) == 0
IntStr(n) == <<"0">>
IntStep(n) == <<INT>> \o IntStr(n)
IsIntStep(step) == step # <<>> /\ step[1] = INT
\* str(step)
StepStr(step) == IF IsIntStep(step) THEN Tail(step) ELSE step
\* the index an int step names
StepIndex(step) == IntValue(Tail(step))

(***************************************************************************)
(* Definitions (the `definitions` module): Value(v) is the literal         *)
(* definition of a leaf: it matches exactly the value it holds.            *)
(***************************************************************************)
Value(v) == [dkind |-> "Value", value |-> v]

\* Definition.match(value) -> (matches, new_definition)
Definition_match(definition, value) ==
    [matches |-> (definition.value = value), definition |-> definition]

(***************************************************************************)
(* tree.py: the policy tree                                                *)
(***************************************************************************)
UnknownPolicyNode == [kind |-> "Unknown"]
LeafPolicyNode(definition) == [kind |-> "Leaf", definition |-> definition]
DictPolicyNode(nodes) == [kind |-> "Dict", nodes |-> nodes]
\* A list kept in the tree is a node of its own: its children are the nodes
\* of its elements, addressed by int steps
ListPolicyNode(nodes) == [kind |-> "List", nodes |-> nodes]

IsPolicyNode(x) == "kind" \in DOMAIN x

\* PolicyNode.from_obj: a dict becomes a DictPolicyNode (recursively, through
\* DictPolicyNode.__init__), a node stays itself, a list becomes a
\* ListPolicyNode, anything else a Leaf
RECURSIVE from_obj(_)
ListPolicyNode_from_list(items) == ListPolicyNode([i \in DOMAIN items |-> from_obj(items[i])])

from_obj(obj) ==
    IF IsPolicyNode(obj) THEN obj
    ELSE IF obj.py = "dict"
         THEN DictPolicyNode([k \in DOMAIN obj.map |-> from_obj(obj.map[k])])
    ELSE IF obj.py = "list" THEN ListPolicyNode_from_list(obj.items)
         ELSE LeafPolicyNode(Value(obj))

\* the `value` property of the three node classes
RECURSIVE node_value(_)
node_value(node) ==
    CASE node.kind = "Unknown" -> PyNone
      [] node.kind = "Leaf" -> node.definition.value
      [] node.kind = "Dict" ->
            PyDict([name \in DOMAIN node.nodes |-> node_value(node.nodes[name])])
      [] node.kind = "List" ->
            PyList([i \in DOMAIN node.nodes |-> node_value(node.nodes[i])])

\* Definition.get_template(): the template value of a definition, which
\* the engine hands on as it is
Definition_get_template(definition) == [py |-> "template", value |-> definition.value]

\* get_template of the node classes of tree.py
RECURSIVE PolicyNode_get_template(_)

UnknownPolicyNode_get_template(self) == PyDict(<<>>)

LeafPolicyNode_get_template(self) == Definition_get_template(self.definition)

\* get_template that gives every child the empty template
DictPolicyNode_get_template_shallow(self) ==
    PyDict([k \in DOMAIN self.nodes |-> PyDict(<<>>)])

\* {k: v.get_template() for k, v in self.nodes.items()}
DictPolicyNode_get_template(self) ==
    PyDict([k \in DOMAIN self.nodes |-> PolicyNode_get_template(self.nodes[k])])

PolicyNode_get_template(self) ==
    CASE self.kind = "Unknown" -> UnknownPolicyNode_get_template(self)
      [] self.kind = "Leaf" -> LeafPolicyNode_get_template(self)
      [] self.kind = "Dict" -> DictPolicyNode_get_template(self)

\* The result of PolicyNode.select: (selected node, new root), or the
\* exception raised by LeafPolicyNode.select
SelectRaised == [exc |-> TRUE, node |-> UnknownPolicyNode, root |-> UnknownPolicyNode]

\* dict(nodes) with nodes[first] = new_first
WithChild(nodes, first, new_first) ==
    [k \in (DOMAIN nodes) \cup {first} |-> IF k = first THEN new_first ELSE nodes[k]]

RECURSIVE PolicyNode_select(_, _)

\* (value, DictPolicyNode(**{first: subpolicy})) around the result for `rest`
SelectedUnder(nodes, first, sub) ==
    IF sub.exc THEN SelectRaised
    ELSE [exc |-> FALSE, node |-> sub.node,
          root |-> DictPolicyNode(WithChild(nodes, first, sub.root))]

\* DictPolicyNode(**{first: subpolicy}) raises for an int step
UnknownPolicyNode_select(self, path) ==
    IF path = <<>> THEN [exc |-> FALSE, node |-> self, root |-> self]
    ELSE IF IsIntStep(Head(path)) THEN SelectRaised
    ELSE SelectedUnder(<<>>, Head(path), PolicyNode_select(UnknownPolicyNode, Tail(path)))

\* a Leaf traversed as if it held the path
LeafPolicyNode_select_ignores_path(self, path) ==
    [exc |-> FALSE, node |-> self, root |-> self]

\* LeafPolicyNode.select(path): raise Exception("Node cannot be traversed")
LeafPolicyNode_select(self, path) ==
    IF path # <<>> THEN SelectRaised
    ELSE [exc |-> FALSE, node |-> self, root |-> self]

\* self.nodes.get(first, UnknownPolicyNode())
NodesGet(nodes, first) ==
    IF first \in DOMAIN nodes THEN nodes[first] ELSE UnknownPolicyNode

\* DictPolicyNode.select building the new dict from the selected child only
DictPolicyNode_select_drops_siblings(self, path) ==
    IF path = <<>> THEN [exc |-> FALSE, node |-> self, root |-> self]
    ELSE IF IsIntStep(Head(path)) THEN SelectRaised
    ELSE SelectedUnder(<<>>, Head(path),
                       PolicyNode_select(NodesGet(self.nodes, Head(path)), Tail(path)))

DictPolicyNode_select(self, path) ==
    IF path = <<>> THEN [exc |-> FALSE, node |-> self, root |-> self]
    ELSE IF IsIntStep(Head(path)) THEN SelectRaised
    ELSE SelectedUnder(self.nodes, Head(path),
                       PolicyNode_select(NodesGet(self.nodes, Head(path)), Tail(path)))

\* the list with the element at `index` replaced by what select made of it
ListSelectedUnder(nodes, index, sub) ==
    IF sub.exc THEN SelectRaised
    ELSE [exc |-> FALSE, node |-> sub.node,
          root |-> ListPolicyNode([nodes EXCEPT ![index + 1] = sub.root])]

\* a list node is entered by the index of one of its elements
ListPolicyNode_select(self, path) ==
    IF path = <<>> THEN [exc |-> FALSE, node |-> self, root |-> self]
    ELSE IF ~IsIntStep(Head(path)) THEN SelectRaised
    ELSE IF StepIndex(Head(path)) >= Len(self.nodes) THEN SelectRaised
    ELSE ListSelectedUnder(self.nodes, StepIndex(Head(path)),
                           PolicyNode_select(self.nodes[StepIndex(Head(path)) + 1],
                                             Tail(path)))

PolicyNode_select(self, path) ==
    CASE self.kind = "Unknown" -> UnknownPolicyNode_select(self, path)
      [] self.kind = "Leaf" -> LeafPolicyNode_select(self, path)
      [] self.kind = "Dict" -> DictPolicyNode_select(self, path)
      [] self.kind = "List" -> ListPolicyNode_select(self, path)

\* PolicyNode.match(value) -> (matches, new node)
UnknownPolicyNode_match(self, value) ==
    [matches |-> TRUE, node |-> LeafPolicyNode(Value(value))]

MatchedLeaf(m) == [matches |-> m.matches, node |-> LeafPolicyNode(m.definition)]

LeafPolicyNode_match(self, value) == MatchedLeaf(Definition_match(self.definition, value))

\* a Dict matched like an Unknown node
DictPolicyNode_match_overwrites(self, value) ==
    [matches |-> TRUE, node |-> LeafPolicyNode(Value(value))]

DictPolicyNode_match(self, value) == [matches |-> FALSE, node |-> self]

PolicyNode_match(self, value) ==
    CASE self.kind = "Unknown" -> UnknownPolicyNode_match(self, value)
      [] self.kind = "Leaf" -> LeafPolicyNode_match(self, value)
      [] self.kind = "Dict" -> DictPolicyNode_match(self, value)
      [] self.kind = "List" -> DictPolicyNode_match(self, value)

\* Does `path` lead to a node that is present in the tree (without adding any)?
RECURSIVE PathExists(_, _)
PathExists(node, path) ==
    IF path = <<>> THEN TRUE
    ELSE IF node.kind = "List"
         THEN /\ IsIntStep(Head(path))
              /\ StepIndex(Head(path)) < Len(node.nodes)
              /\ PathExists(node.nodes[StepIndex(Head(path)) + 1], Tail(path))
    ELSE /\ node.kind = "Dict"
         /\ Head(path) \in DOMAIN node.nodes
         /\ PathExists(node.nodes[Head(path)], Tail(path))

\* The child a step names, for a step that exists
ChildAt(node, step) ==
    IF node.kind = "List" THEN node.nodes[StepIndex(step) + 1] ELSE node.nodes[step]

\* The node at `path`, for a path that exists
RECURSIVE NodeAt(_, _)
NodeAt(node, path) ==
    IF path = <<>> THEN node ELSE NodeAt(ChildAt(node, Head(path)), Tail(path))

(***************************************************************************)
(* partial.py: a Partial is a policy tree plus the path of the current     *)
(* scope.  Every method returns (value, new Partial); TupleRaised stands    *)
(* for a call that raised instead of returning.                            *)
(***************************************************************************)
Partial(root, path) == [root |-> root, path |-> path]

\* Partial() and Partial.from_obj(obj): the scope is the root
NewPartial == Partial(UnknownPolicyNode, <<>>)
Partial_from_obj(obj) == Partial(from_obj(obj), <<>>)

Tuple(value, partial) == [exc |-> FALSE, value |-> value, partial |-> partial]
TupleRaised == [exc |-> TRUE, value |-> PyNone, partial |-> NewPartial]

\* the `root` property: the value of the root node
Partial_root(self) == node_value(self.root)

\* the `scope` property: "/{}".format("/".join(str(step) for step in path))
Partial_scope(self) ==
    <<SLASH>> \o Join([i \in DOMAIN self.path |-> StepStr(self.path[i])])

\* maybe_coerce_to_int: int(step) succeeds on digit strings only
maybe_coerce_to_int(step) ==
    IF step # <<>> /\ \A i \in 1..Len(step) : step[i] \in DIGITS
    THEN IntStep(IntValue(step)) ELSE step

\* The walk of select over relative_path: '..' goes up one step, any other
\* step goes down into that child
RECURSIVE WalkPath(_, _)
WalkPath(path, relative_path) ==
    IF relative_path = <<>> THEN [exc |-> FALSE, path |-> path]
    ELSE LET step == Head(relative_path) IN
         IF step = DOTDOT
         THEN IF path = <<>> THEN [exc |-> TRUE, path |-> path]
              ELSE WalkPath(SubSeq(path, 1, Len(path) - 1), Tail(relative_path))
         ELSE WalkPath(Append(path, maybe_coerce_to_int(step)), Tail(relative_path))

\* the selector made absolute: "" is the current scope, a selector that does
\* not start with "/" is appended to the current scope
AbsoluteScope(old_scope, selector) ==
    IF selector = <<>> THEN old_scope
    ELSE IF selector[1] # SLASH THEN old_scope \o <<SLASH>> \o selector
    ELSE selector

RelativePath(relative_scope) ==
    IF relative_scope = <<DOT>> THEN <<>> ELSE Split(relative_scope)

ResolveFrom(path, old_scope, selector) ==
    WalkPath(path, RelativePath(relpath(AbsoluteScope(old_scope, selector), old_scope)))

\* The absolute path a selector resolves to from the current scope
ResolveSelector(self, selector) == ResolveFrom(self.path, Partial_scope(self), selector)

\* node lookup in the tree
SelectIn(root, selected_path) == PolicyNode_select(root, selected_path)

\* select that keeps the receiver's tree when the path is not to be set
Partial_select_found_keeps_root(self, selected_path, set_path, sel) ==
    IF sel.exc THEN TupleRaised
    ELSE IF set_path THEN Tuple(sel.node, Partial(sel.root, selected_path))
    ELSE Tuple(sel.node, self)

\* select that moves the scope to the selected path whatever set_path says
Partial_select_found_sets_path(self, selected_path, set_path, sel) ==
    IF sel.exc THEN TupleRaised
    ELSE Tuple(sel.node, Partial(sel.root, selected_path))

Partial_select_found(self, selected_path, set_path, sel) ==
    IF sel.exc THEN TupleRaised
    ELSE Tuple(sel.node, Partial(sel.root, IF set_path THEN selected_path ELSE self.path))

Partial_select_walked(self, set_path, walked) ==
    IF walked.exc THEN TupleRaised
    ELSE Partial_select_found(self, walked.path, set_path, SelectIn(self.root, walked.path))

\* Partial.select(selector, set_path) -> (node, new Partial)
Partial_select(self, selector, set_path) ==
    Partial_select_walked(self, set_path, ResolveSelector(self, selector))

\* The tree with the node at `path` replaced (the path's parent must exist
\* and be a Dict, or a List that has the element)
RECURSIVE ReplaceAt(_, _, _)
ReplaceAt(root, path, node) ==
    IF path = <<>> THEN node
    ELSE IF root.kind = "List"
         THEN ListPolicyNode([root.nodes EXCEPT ![StepIndex(Head(path)) + 1] =
                                ReplaceAt(@, Tail(path), node)])
    ELSE DictPolicyNode(WithChild(root.nodes, Head(path),
            IF Len(path) = 1 THEN node
            ELSE ReplaceAt(root.nodes[Head(path)], Tail(path), node)))

CanReplaceAt(root, path) ==
    \/ path = <<>>
    \/ /\ PathExists(root, DropLast(path))
       /\ \/ /\ NodeAt(root, DropLast(path)).kind = "Dict"
             /\ ~IsIntStep(path[Len(path)])
          \/ PathExists(root, path)

\* set_node building the tree anew from the root down to the scope
RECURSIVE AloneAt(_, _)
AloneAt(path, node) ==
    IF path = <<>> THEN node
    ELSE DictPolicyNode(WithChild(<<>>, Head(path), AloneAt(Tail(path), node)))

Partial_set_node_alone(self, node) ==
    Tuple(node, Partial(AloneAt(self.path, node), self.path))

\* Partial.set_node(node) -> (node, new Partial)
Partial_set_node(self, node) ==
    IF ~CanReplaceAt(self.root, self.path) THEN TupleRaised
    ELSE Tuple(node, Partial(ReplaceAt(self.root, self.path, node), self.path))

\* Partial.set_value(value) -> (value, new Partial): the scoped node becomes
\* PolicyNode.from_obj(value)
Partial_set_value(self, value) ==
    IF ~CanReplaceAt(self.root, self.path) THEN TupleRaised
    ELSE Tuple(value, Partial(ReplaceAt(self.root, self.path, from_obj(value)), self.path))

\* Partial.match(value) -> (matches, new Partial); the unmatched case returns
\* the receiver
MatchResult(exc, matches, partial) == [exc |-> exc, matches |-> matches, partial |-> partial]

\* Partial.match returning the receiver on a match too: the matched value is
\* not recorded in the tree
Partial_match_set_keeps_self(self, m, set) ==
    IF set.exc THEN MatchResult(TRUE, FALSE, self)
    ELSE MatchResult(FALSE, m.matches, self)

Partial_match_set(self, m, set) ==
    IF set.exc THEN MatchResult(TRUE, FALSE, self)
    ELSE IF m.matches THEN MatchResult(FALSE, TRUE, set.partial)
    ELSE MatchResult(FALSE, FALSE, self)

Partial_match_node(self, new_self, m) ==
    Partial_match_set(self, m, Partial_set_node(new_self, m.node))

Partial_match_selected(self, value, selected) ==
    IF selected.exc THEN MatchResult(TRUE, FALSE, self)
    ELSE Partial_match_node(self, selected.partial, PolicyNode_match(selected.value, value))

Partial_match(self, value) ==
    Partial_match_selected(self, value, Partial_select(self, <<>>, TRUE))

\* The context stack of a Partial: the list of frames kept at /context in
\* the tree.  push_context appends a frame, pop_context removes the last
\* one; both leave the scope where it is.  A tree without a list at
\* /context cannot be pushed to or popped from.
S_context == <<"c", "o", "n", "t", "e", "x", "t">>
S_abs_context == <<SLASH>> \o S_context

IsList(v) == "py" \in DOMAIN v /\ v.py = "list"

context_set(self, selected, frames) ==
    Partial(ReplaceAt(selected.partial.root, <<S_context>>,
                      from_obj(PyList(frames))), self.path)

Partial_push_context_selected(self, context, selected) ==
    IF selected.exc THEN TupleRaised
    ELSE IF ~IsList(node_value(selected.value)) THEN TupleRaised
    ELSE Tuple(context,
               context_set(self, selected, Append(node_value(selected.value).items, context)))

Partial_push_context(self, context) ==
    Partial_push_context_selected(self, context, Partial_select(self, S_abs_context, FALSE))

Partial_pop_context_selected(self, selected) ==
    IF selected.exc THEN TupleRaised
    ELSE IF ~IsList(node_value(selected.value)) THEN TupleRaised
    ELSE IF node_value(selected.value).items = <<>> THEN TupleRaised
    ELSE Tuple(node_value(selected.value).items[Len(node_value(selected.value).items)],
               context_set(self, selected, DropLast(node_value(selected.value).items)))

Partial_pop_context(self) ==
    Partial_pop_context_selected(self, Partial_select(self, S_abs_context, FALSE))

(***************************************************************************)
(* The List monad (pymonad.List) under StateT: the result of running a     *)
(* rule is the ordered list of its outcomes (value, partial), or Raised    *)
(* when an exception escaped the run.                                      *)
(***************************************************************************)
Outcome(value, partial) == [value |-> value, partial |-> partial]

List(outcomes) == [exc |-> FALSE, list |-> outcomes]
Raised == [exc |-> TRUE, list |-> <<>>]

List_unit(value, partial) == List(<<Outcome(value, partial)>>)
List_mzero == List(<<>>)

List_mplus(left, right) ==
    IF left.exc \/ right.exc THEN Raised ELSE List(left.list \o right.list)

\* the unit of a (value, partial) tuple a Partial method returned
List_unit_tuple(tuple) ==
    IF tuple.exc THEN Raised ELSE List_unit(tuple.value, tuple.partial)

\* concatenation that puts the results of later outcomes first
RECURSIVE List_concat_later_first(_)
List_concat_later_first(m_list) ==
    IF m_list = <<>> THEN List_mzero
    ELSE List_mplus(List_concat_later_first(Tail(m_list)), Head(m_list))

\* concatenation of a list of results, in order
RECURSIVE List_concat(_)
List_concat(m_list) ==
    IF m_list = <<>> THEN List_mzero
    ELSE List_mplus(Head(m_list), List_concat(Tail(m_list)))

\* a bind in which a branch without outcomes removes its siblings
List_bind_fails_together(m, m_new_results) ==
    IF m.exc THEN Raised
    ELSE IF \E i \in 1..Len(m_new_results) : m_new_results[i].list = <<>>
         THEN IF \E i \in 1..Len(m_new_results) : m_new_results[i].exc
              THEN Raised ELSE List_mzero
         ELSE List_concat(m_new_results)

\* List.bind: m >> function, the function applied to every outcome in order
\* and the resulting lists concatenated in that order
\* (m_new_results[i] is the function's result for the i-th outcome of m)
List_bind(m, m_new_results) ==
    IF m.exc THEN Raised ELSE List_concat(m_new_results)

\* List.fmap with a function that returns a (value, partial) tuple
List_of_tuples(tuples) ==
    IF \E i \in 1..Len(tuples) : tuples[i].exc THEN Raised
    ELSE List([i \in 1..Len(tuples) |-> Outcome(tuples[i].value, tuples[i].partial)])

\* (tuples[i] is the function's tuple for the i-th outcome of m)
List_fmap(m, tuples) ==
    IF m.exc THEN Raised ELSE List_of_tuples(tuples)

(***************************************************************************)
(* Policy rules as data.  A record with field `op` stands for a PolicyRule *)
(* (it ignores the value it is bound to) or for a policy rule function     *)
(* (it is called with that value).                                         *)
(***************************************************************************)
\* rules
Unit(value) == [op |-> "unit", value |-> value]
SetValue(value) == [op |-> "set_value", value |-> value]
Select(selector, set_path) == [op |-> "select", selector |-> selector, set_path |-> set_path]
Scope == [op |-> "scope"]
GetNode == [op |-> "get_node"]
Children == [op |-> "children"]
Check(result) == [op |-> "check", value |-> result]
DefineAs(definition) == [op |-> "define_as", definition |-> definition]
Fail == [op |-> "fail"]
Match(compare_to) == [op |-> "match", value |-> compare_to]
PermitValues(permitted_values) == [op |-> "permit_values", values |-> permitted_values]
Policies(rule_funcs) == [op |-> "policies", rule_funcs |-> rule_funcs]
Regarding(selector, rule_funcs) ==
    [op |-> "regarding", selector |-> selector, rule_funcs |-> rule_funcs]
RegardingStep(selector, rule_func) ==
    [op |-> "regarding_step", selector |-> selector, rule_func |-> rule_func]
Given(selector, rule_funcs) ==
    [op |-> "given", selector |-> selector, rule_funcs |-> rule_funcs]
Bind(left, right) == [op |-> "bind", left |-> left, right |-> right]
\* rule functions
UnitF == [op |-> "unit_f"]
UnitValueF == [op |-> "unit_value_f"]
SetValueF == [op |-> "set_value_f"]
MatchF == [op |-> "match_f"]
WithValue(func) == [op |-> "with_value", func |-> func]
Collect(rule_funcs) == [op |-> "collect", rule_funcs |-> rule_funcs]
Attempt(rules) == [op |-> "attempt", has_catch |-> FALSE, rules |-> rules]
AttemptCatch(rules, catch) ==
    [op |-> "attempt", has_catch |-> TRUE, rules |-> rules, catch |-> catch]
PushContext(context) == [op |-> "push_context", context |-> context]
PopContextF == [op |-> "pop_context_f"]
WrapContext(context, op) == [op |-> "wrap_context", rule |-> op, context |-> context]
UnlessErrors(rules) == [op |-> "unless_errors", rules |-> rules]
\* each(*rule_funcs) and each(*rule_funcs, ref=ref_obj); ref is None when
\* the keyword is not given
Each(rule_funcs, ref_obj) == [op |-> "each", rule_funcs |-> rule_funcs, ref |-> ref_obj]
RequireValue(node) == [op |-> "require_value", node |-> node]
ForbidValue(node) == [op |-> "forbid_value", node |-> node]
RequireValueF == [op |-> "require_value_f"]
ForbidValueF == [op |-> "forbid_value_f"]
PermitValuesF == [op |-> "permit_values_f"]
Trace(rule_funcs) == [op |-> "trace", rule_funcs |-> rule_funcs]
TraceStep(rule_func) == [op |-> "trace_step", rule_func |-> rule_func]
AddErrorF == [op |-> "add_error_f"]
\* a python function used as a rule function: called with the value, it
\* returns the rule to run
Lambda(func) == [op |-> "lambda", func |-> func]
\* contexts/policies.py add_error(error):
\* select("/errors") >> unit_value >> (lambda errors: regarding("/errors", ...))
S_abs_errors == <<"/", "e", "r", "r", "o", "r", "s">>
AddError(error) ==
    Bind(Bind(Select(S_abs_errors, FALSE), UnitValueF),
         Lambda([lam |-> "add_error_to", value |-> error]))
\* python functions: lambda foo: set_value(foo + suffix)
LambdaSetValueConcat(suffix) == [lam |-> "set_value_concat", suffix |-> suffix]
\* lambda v: regarding(selector, set_value(v))
LambdaRegardingSetValue(selector) == [lam |-> "regarding_set_value", selector |-> selector]
\* lambda first: children() >> (lambda second: unit(first == second))
LambdaChildrenEqual == [lam |-> "children_equal"]
LambdaEqualTo(first) == [lam |-> "equal_to", value |-> first]

(***************************************************************************)
(* contexts/base.py: the builders.  A builder (BaseContext) is a record    *)
(* that holds its items, its wrapper, its ctx_args and its name; the field *)
(* `ctx` is the identity of the object.  The functions and closures of     *)
(* base.py are records ([lam |-> ...]) that call_func, call_wrapper,       *)
(* call_action and call_complete interpret.  Raises stands for an          *)
(* exception that escaped.                                                 *)
(***************************************************************************)
Raises == [py |-> "raise"]
IsRaises(x) == "py" \in DOMAIN x /\ x.py = "raise"

\* ContextualValue(ctx): compared and hashed by the builder that owns it
ContextualValue(ctx) == [py |-> "ContextualValue", ctx |-> ctx]
IsContextualValue(x) == "py" \in DOMAIN x /\ x.py = "ContextualValue"

\* Incomplete(func, missing, got)
Incomplete(func, missing, got) ==
    [py |-> "Incomplete", func |-> func, missing |-> missing, got |-> got]
IsIncomplete(x) == "py" \in DOMAIN x /\ x.py = "Incomplete"

\* BaseContext.__init__(wrapper, *ctx_args, name=...): no items yet
BaseContext(ctx, wrapper, ctx_args, name) ==
    [py |-> "Context", items |-> <<>>, wrapper |-> wrapper, ctx_args |-> ctx_args,
     ctx_name |-> name, ctx |-> ctx]
\* hasattr(x, 'finalize')
HasFinalize(x) == "py" \in DOMAIN x /\ x.py = "Context"
\* hasattr(x, 'bind'): a PolicyRule; a rule function or a python function
\* has no bind
FunctionOps == {"unit_f", "unit_value_f", "set_value_f", "match_f", "pop_context_f",
                "lambda", "require_value_f", "forbid_value_f", "permit_values_f",
                "add_error_f", "with_value", "collect", "attempt", "each"}
HasBind(x) == "op" \in DOMAIN x /\ x.op \notin FunctionOps

\* BaseContext.get_default_wrapper: lambda policy_rules: unless_errors(*policy_rules)
DefaultWrapper == [lam |-> "default_wrapper"]
\* the function a builder wrapper returns for its ctx_args
\* (scope_subctx): lambda true_scope: regarding("{}".format(scope), *policy_rules)
WithTrueScope(scope, policy_rules) ==
    [lam |-> "with_true_scope", selector |-> scope, rule_funcs |-> policy_rules]
\* def func(b, a): return set_value(a + b)
FuncBA == [lam |-> "func_b_a"]

\* get_missing(args)
get_missing_direct(args) ==
    {args[i] : i \in {j \in DOMAIN args : IsContextualValue(args[j])}}

get_missing(args) ==
    UNION {IF IsContextualValue(args[i]) THEN {args[i]}
           ELSE IF IsIncomplete(args[i]) THEN args[i].missing
           ELSE {} : i \in DOMAIN args}

\* make_incomplete(f, args_, missing_args): the closure `complete` keeps f
\* and args_
make_incomplete(f, args_, missing_args) ==
    Incomplete([lam |-> "complete", func |-> f, args |-> args_], missing_args, <<>>)

\* the functions given to apply: lambda t: t[name] and lambda es: es[-1]
GetItem(name) == [lam |-> "getitem", name |-> name]
LastItem == [lam |-> "last_item"]
call_python(func, arg) ==
    CASE func.lam = "getitem" ->
            IF "py" \in DOMAIN arg /\ arg.py = "dict" /\ func.name \in DOMAIN arg.map
            THEN arg.map[func.name] ELSE Raises
      [] func.lam = "last_item" ->
            IF "py" \in DOMAIN arg /\ arg.py = "list" /\ arg.items # <<>>
            THEN arg.items[Len(arg.items)] ELSE Raises

\* collect(*policy_rules)(value), each(*policy_rules, ref=ref)(value): a rule
\* function called with the value
Called(rule_func, value) ==
    IF IsRaises(value) THEN Raises ELSE Bind(Unit(value), rule_func)

\* "{}".format(value) of a string or an int
IsFormatted(value) == "py" \in DOMAIN value /\ value.py \in {"str", "int"}
Format(value) == IF value.py = "int" THEN IntStr(value.value) ELSE value.s

\* f(*got) for the callables given to append and returned by wrappers
call_func(f, got) ==
    IF "op" \in DOMAIN f
    THEN CASE f.op = "set_value_f" /\ Len(got) = 1 -> SetValue(got[1])
           [] f.op = "unit_f" /\ Len(got) = 1 -> Unit(got[1])
           [] f.op = "require_value_f" /\ Len(got) = 1 -> RequireValue(got[1])
           [] f.op = "forbid_value_f" /\ Len(got) = 1 -> ForbidValue(got[1])
           [] f.op = "permit_values_f" /\ Len(got) = 1 ->
                IF "py" \in DOMAIN got[1] /\ got[1].py = "list"
                THEN PermitValues(got[1].items) ELSE Raises
           [] f.op = "add_error_f" /\ Len(got) = 1 -> AddError(got[1])
           [] OTHER -> Raises
    ELSE CASE f.lam = "with_true_scope" /\ Len(got) = 1 ->
                Regarding(f.selector, f.rule_funcs)
           [] f.lam = "select_true_scope" /\ Len(got) = 1 ->
                IF IsFormatted(got[1]) THEN Regarding(Format(got[1]), f.rule_funcs)
                ELSE Raises
           [] f.lam = "with_true_value" /\ Len(got) = 1 ->
                Bind(Unit(got[1]), Trace(f.rule_funcs))
           [] f.lam = "with_true_args" /\ Len(got) = 1 ->
                Called(Collect(f.rule_funcs), call_python(f.func, got[1]))
           [] f.lam = "with_true_children" /\ Len(got) = 1 ->
                Called(Each(f.rule_funcs, f.ref), got[1])
           [] f.lam = "regarding_set_value" /\ Len(got) = 1 ->
                Regarding(f.selector, <<SetValue(got[1])>>)
           [] f.lam = "func_b_a" /\ Len(got) = 2 ->
                IF /\ "py" \in DOMAIN got[1] /\ got[1].py = "str"
                   /\ "py" \in DOMAIN got[2] /\ got[2].py = "str"
                THEN SetValue(PyStr(got[2].s \o got[1].s))
                ELSE Raises
           [] OTHER -> Raises

\* ctx_wrapper(items)
call_wrapper_with_policies(ctx_wrapper, items) == Policies(items)

call_wrapper(ctx_wrapper, items) ==
    CASE ctx_wrapper.lam = "default_wrapper" -> UnlessErrors(items)
      [] ctx_wrapper.lam = "scope_wrapper" -> WithTrueScope(ctx_wrapper.selector, items)
      [] ctx_wrapper.lam = "select_wrapper" ->
            [lam |-> "select_true_scope", rule_funcs |-> items]
      [] ctx_wrapper.lam = "attempt_wrapper" ->
            IF items = <<>> THEN Raises ELSE AttemptCatch(Tail(items), Head(items))
      [] ctx_wrapper.lam = "trace_wrapper" ->
            [lam |-> "with_true_value", rule_funcs |-> items]
      [] ctx_wrapper.lam = "apply_wrapper" ->
            [lam |-> "with_true_args", rule_funcs |-> items, func |-> ctx_wrapper.func]
      [] ctx_wrapper.lam = "children_wrapper" -> Bind(Children, Collect(items))
      [] ctx_wrapper.lam = "with_policy_rules" ->
            [lam |-> "with_true_children", rule_funcs |-> items, ref |-> ctx_wrapper.ref]

RECURSIVE ctx_apply(_, _, _)
RECURSIVE finalize(_)
RECURSIVE finalize_item(_, _)
RECURSIVE Incomplete_complete(_, _)

\* `first >> (lambda value: ctx_apply(f, got+[value], rest))`
CtxApplyLater(f, got, rest) ==
    Lambda([lam |-> "ctx_apply", func |-> f, got |-> got, args |-> rest])

ctx_apply_finalized(f, got, value, rest) ==
    IF IsRaises(value) THEN Raises ELSE ctx_apply(f, got, <<value>> \o rest)

ctx_apply(f, got, remaining) ==
    IF remaining = <<>> THEN (IF got # <<>> THEN call_func(f, got) ELSE f)
    ELSE IF HasFinalize(Head(remaining))
         THEN ctx_apply_finalized(f, got, finalize(Head(remaining)), Tail(remaining))
    ELSE IF HasBind(Head(remaining))
         THEN Bind(Head(remaining), CtxApplyLater(f, got, Tail(remaining)))
    ELSE ctx_apply(f, Append(got, Head(remaining)), Tail(remaining))

\* BaseContext.append with args: lambda args: ctx_apply(item, [], args)
AppendAction(item) == [lam |-> "append_action", item |-> item]
\* BaseContext.wrap: make_action(ctx_wrapper, ctx_name, num_ctx_args)
make_action(ctx_wrapper, ctx_name, num_ctx_args) ==
    [lam |-> "action", wrapper |-> ctx_wrapper, ctx_name |-> ctx_name,
     num_ctx_args |-> num_ctx_args]

\* if ctx_name: wrapped = wrap_context(ContextFrame(ctx_name, wrapped.ast), wrapped)
action_named(ctx_name, wrapped) ==
    IF IsRaises(wrapped) THEN Raises
    ELSE IF ~Truthy(ctx_name) THEN wrapped
    ELSE IF "op" \notin DOMAIN wrapped THEN Raises
    ELSE WrapContext(ContextFrame(ctx_name.s, wrapped), wrapped)

\* action(args): the function wrap_ctx_values runs once every value is there
call_action(action, args) ==
    CASE action.lam = "append_action" -> ctx_apply(action.item, <<>>, args)
      [] action.lam = "action" ->
            action_named(action.ctx_name,
                ctx_apply(call_wrapper(action.wrapper,
                                       SubSeq(args, action.num_ctx_args + 1, Len(args))),
                          <<>>, SubSeq(args, 1, action.num_ctx_args)))

\* wrap_ctx_values(action, args)
wrap_ctx_values(action, args) ==
    IF get_missing(args) # {} THEN make_incomplete(action, args, get_missing(args))
    ELSE call_action(action, args)

\* _finalize_item.make_appended_func(item, ctx_value): a python function,
\* called with the value when it is used as a rule function
make_appended_func(item, ctx_value) ==
    Lambda([lam |-> "appended_func", item |-> item, ctx_value |-> ctx_value])

\* the argument make_incomplete's `complete` passes on for one of args_
complete_arg(arg, true_values) ==
    IF IsContextualValue(arg)
    THEN (IF arg \in DOMAIN true_values THEN true_values[arg] ELSE Raises)
    ELSE IF IsIncomplete(arg)
    THEN (IF arg.missing \subseteq DOMAIN true_values
          THEN Incomplete_complete(arg, [ctx_value \in arg.missing |-> true_values[ctx_value]])
          ELSE Raises)
    ELSE arg

complete_args(args_, true_values) ==
    [i \in DOMAIN args_ |-> complete_arg(args_[i], true_values)]

call_action_on(f, args) ==
    IF \E i \in DOMAIN args : IsRaises(args[i]) THEN Raises ELSE call_action(f, args)

\* self.func(got): make_incomplete's `complete` and _finalize_item's
\* `incomplete_func`
call_complete(func, true_values) ==
    CASE func.lam = "complete" ->
            call_action_on(func.func, complete_args(func.args, true_values))
      [] func.lam = "incomplete_func" ->
            make_appended_func(Incomplete_complete(func.item, true_values), func.ctx_value)

\* Incomplete.complete(true_values): got and missing are copies
Incomplete_complete_keeps_missing(self, true_values) ==
    Incomplete(self.func, self.missing, true_values @@ self.got)

Incomplete_complete(self, true_values) ==
    IF self.missing \ DOMAIN true_values = {}
    THEN call_complete(self.func, true_values @@ self.got)
    ELSE Incomplete(self.func, self.missing \ DOMAIN true_values, true_values @@ self.got)

\* appended_func(value): item.complete({ctx_value: value})
appended_func_completes_with_none(item, ctx_value, value) ==
    IF ~IsIncomplete(item) THEN Raises
    ELSE Incomplete_complete(item, [cv \in {ctx_value} |-> PyNone])

appended_func(item, ctx_value, value) ==
    IF ~IsIncomplete(item) THEN Raises
    ELSE Incomplete_complete(item, [cv \in {ctx_value} |-> value])

\* _warrants_inclusion keeping the builders that hold no item
warrants_inclusion_of_every_item(item) == TRUE

\* BaseContext._warrants_inclusion(item)
warrants_inclusion(item) == ~HasFinalize(item) \/ Len(item.items) > 0

\* BaseContext._finalize_item(item, provided_ctx_value)
finalize_item_never_threads(item, provided_ctx_value) ==
    IF HasFinalize(item) THEN finalize_item(finalize(item), provided_ctx_value)
    ELSE item

finalize_item(item, provided_ctx_value) ==
    IF HasFinalize(item) THEN finalize_item(finalize(item), provided_ctx_value)
    ELSE IF IsIncomplete(item) /\ provided_ctx_value \in item.missing
    THEN IF item.missing \ {provided_ctx_value} = {}
         THEN make_appended_func(item, provided_ctx_value)
         ELSE Incomplete([lam |-> "incomplete_func", item |-> item,
                          ctx_value |-> provided_ctx_value],
                         item.missing \ {provided_ctx_value}, <<>>)
    ELSE item

\* BaseContext.value
BaseContext_value(self) == ContextualValue(self.ctx)

\* BaseContext.get_finalized_items()
finalized_of(items, provided_ctx_value) ==
    [i \in DOMAIN items |-> finalize_item(items[i], provided_ctx_value)]

\* get_finalized_items that returns the items last first
get_finalized_items_reversed(self) ==
    [i \in 1..Len(SelectSeq(self.items, warrants_inclusion)) |->
        finalized_of(SelectSeq(self.items, warrants_inclusion), BaseContext_value(self))[
            Len(SelectSeq(self.items, warrants_inclusion)) + 1 - i]]

get_finalized_items(self) ==
    finalized_of(SelectSeq(self.items, warrants_inclusion), BaseContext_value(self))

\* BaseContext.wrap(items)
wrap(self, items) ==
    IF \E i \in DOMAIN items : IsRaises(items[i]) THEN Raises
    ELSE wrap_ctx_values(make_action(self.wrapper, self.ctx_name, Len(self.ctx_args)),
                         self.ctx_args \o items)

\* BaseContext.finalize()
finalize(self) == wrap(self, get_finalized_items(self))

\* BaseContext.append(item, *args): the builder with the item appended
BaseContext_append(self, item, args) ==
    IF args = <<>> THEN [self EXCEPT !.items = Append(@, item)]
    ELSE [self EXCEPT !.items = Append(@, wrap_ctx_values(AppendAction(item), args))]

\* BaseContext.subctx(wrapper, *ctx_args): the builder with a new builder
\* `ctx` appended
BaseContext_subctx(self, ctx, wrapper, ctx_args) ==
    BaseContext_append(self, BaseContext(ctx, wrapper, ctx_args, PyNone), <<>>)

\* contexts.py Context.scope_subctx(scope) (select): a subctx whose wrapper
\* is regarding(scope, ...), with scope as its ctx_arg
ScopeWrapper(scope) == [lam |-> "scope_wrapper", selector |-> scope]
Context_scope_subctx(self, ctx, scope) ==
    BaseContext_subctx(self, ctx, ScopeWrapper(scope), <<PyStr(scope)>>)

\* Context.set_value(value): self.append(set_value, value)
Context_set_value(self, value) == BaseContext_append(self, SetValueF, <<value>>)

(***************************************************************************)
(* operators.py, monads.py: running a rule.  run(rule_func, value, partial) *)
(* is (unit(value) >> rule_func).run(partial): a PolicyRule is run on the  *)
(* partial, a rule function is called with the value and the rule it       *)
(* returns is run.                                                         *)
(***************************************************************************)
RECURSIVE run(_, _, _)

unit(value, partial) == List_unit(value, partial)

unit_value(node, partial) ==
    IF IsPolicyNode(node) THEN List_unit(node_value(node), partial)
    ELSE List_unit(PyNone, partial)

set_value(value, partial) == List_unit_tuple(Partial_set_value(partial, value))

\* select ignoring set_path=False: the scope always moves to the selector
select_always_sets_path(selector, set_path, partial) ==
    List_unit_tuple(Partial_select(partial, selector, TRUE))

select(selector, set_path, partial) ==
    List_unit_tuple(Partial_select(partial, selector, set_path))

scope(partial) == List_unit(PyStr(Partial_scope(partial)), partial)

get_node(partial) == List_unit_tuple(Partial_select(partial, <<>>, TRUE))

\* the `keys` property of a DictPolicyNode: the names of its nodes, each once,
\* in the (arbitrary but fixed) order in which the dict iterates
RECURSIVE KeysInOrder(_)
KeysFrom(names, first) == <<first>> \o KeysInOrder(names \ {first})

KeysInOrder(names) ==
    IF names = {} THEN <<>> ELSE KeysFrom(names, CHOOSE k \in names : TRUE)

DictPolicyNode_keys(self) == KeysInOrder(DOMAIN self.nodes)

\* the `keys` of a list node: the indices of its elements
ListPolicyNode_keys(self) == [i \in DOMAIN self.nodes |-> PyInt(i - 1)]

\* hasattr(node, 'keys')
HasKeys(node) == node.kind \in {"Dict", "List"}

\* the python list of the keys
KeyList(keys) == PyList([i \in 1..Len(keys) |-> PyStr(keys[i])])

\* node.keys
PolicyNode_keys(node) ==
    IF node.kind = "List" THEN PyList(ListPolicyNode_keys(node))
    ELSE KeyList(DictPolicyNode_keys(node))

\* children listing the nodes of the root instead of the scoped node
children_selected_reads_root(partial, selected) ==
    IF selected.exc THEN Raised
    ELSE IF ~HasKeys(partial.root) THEN List_unit(PyList(<<>>), partial)
    ELSE List_unit(PolicyNode_keys(partial.root), partial)

children_selected(partial, selected) ==
    IF selected.exc THEN Raised
    ELSE IF ~HasKeys(selected.value) THEN List_unit(PyList(<<>>), partial)
    ELSE List_unit(PolicyNode_keys(selected.value), partial)

children(partial) == children_selected(partial, Partial_select(partial, <<>>, TRUE))

check(result, partial) == List_unit(result, partial)

\* fail returning the unit instead of mzero
fail_yields_unit(partial) == List_unit(PyNone, partial)

fail(partial) == List_mzero

match_result(compare_to, m) ==
    IF m.exc THEN Raised
    ELSE IF m.matches THEN List_unit(compare_to, m.partial)
    ELSE List_mzero

match(compare_to, partial) == match_result(compare_to, Partial_match(partial, compare_to))

\* permit_values accumulating with for_value(value).mplus(monad): newest first
RECURSIVE permit_values_newest_first(_, _)
permit_values_newest_first(permitted_values, partial) ==
    IF permitted_values = <<>> THEN List_mzero
    ELSE List_mplus(match(permitted_values[Len(permitted_values)], partial),
                    permit_values_newest_first(DropLast(permitted_values), partial))

\* permit_values: mzero, then mplus of match(value).run(partial) per value
RECURSIVE permit_values(_, _)
permit_values(permitted_values, partial) ==
    IF permitted_values = <<>> THEN List_mzero
    ELSE List_mplus(permit_values(DropLast(permitted_values), partial),
                    match(permitted_values[Len(permitted_values)], partial))

\* StateT.bind / PolicyRule._bind_policy_rule: left >> right
\* for_state_result: function(value).run(state) for every result of self.run
for_state_result(right, m) ==
    List_bind(m, [i \in 1..Len(m.list) |->
                     run(right, m.list[i].value, m.list[i].partial)])

bind(left, right, value, partial) ==
    for_state_result(right, run(left, value, partial))

\* what a python function returned, as the rule that bind runs: anything
\* but a PolicyRule has no `run`
called_rule(returned) ==
    IF HasBind(returned) THEN [exc |-> FALSE, rule |-> returned]
    ELSE [exc |-> TRUE, rule |-> Fail]

\* the python functions handed to with_value, called with one argument
call_lambda(func, arg) ==
    CASE func.lam = "set_value_concat" ->
            IF "py" \in DOMAIN arg /\ arg.py = "str"
            THEN [exc |-> FALSE, rule |-> SetValue(PyStr(arg.s \o func.suffix))]
            ELSE [exc |-> TRUE, rule |-> Fail]
      [] func.lam = "regarding_set_value" ->
            [exc |-> FALSE, rule |-> Regarding(func.selector, <<SetValue(arg)>>)]
      [] func.lam = "children_equal" ->
            [exc |-> FALSE, rule |-> Bind(Children, Lambda(LambdaEqualTo(arg)))]
      [] func.lam = "equal_to" ->
            [exc |-> FALSE, rule |-> Unit(PyBool(func.value = arg))]
      [] func.lam = "appended_func" ->
            called_rule(appended_func(func.item, func.ctx_value, arg))
      [] func.lam = "ctx_apply" ->
            called_rule(ctx_apply(func.func, Append(func.got, arg), func.args))
      [] func.lam = "add_error_to" ->
            IF "py" \in DOMAIN arg /\ arg.py = "list"
            THEN [exc |-> FALSE,
                  rule |-> Regarding(S_abs_errors,
                                     <<SetValue(PyList(Append(arg.items, func.value)))>>)]
            ELSE [exc |-> TRUE, rule |-> Fail]

run_called(called, partial) ==
    IF called.exc THEN Raised ELSE run(called.rule, PyNone, partial)

with_value(func, node, partial) ==
    IF ~IsPolicyNode(node) THEN Raised
    ELSE run_called(call_lambda(func, node_value(node)), partial)

\* the rule run on the re-scoped partial
run_scoped(rule_func, incoming_value, scoped) ==
    IF scoped.exc THEN Raised ELSE run(rule_func, incoming_value, scoped.partial)

\* policies running each rule where the previous one left the scope
policies_for_m_result_keeps_scope(rule_func, initial_scope, incoming_value, m_result) ==
    run(rule_func, incoming_value, m_result.partial)

\* policies / collect: for_m_result of one rule_func, the scope re-selected
policies_for_m_result(rule_func, initial_scope, incoming_value, m_result) ==
    run_scoped(rule_func, incoming_value,
               Partial_select(m_result.partial, initial_scope, TRUE))

\* the loop `for rule_func in rule_funcs: m_results = m_results >> for_m_result`
RECURSIVE policies_loop(_, _, _, _)
policies_loop(rule_funcs, initial_scope, incoming_value, m_results) ==
    IF rule_funcs = <<>> THEN m_results
    ELSE policies_loop(Tail(rule_funcs), initial_scope, incoming_value,
            List_bind(m_results, [i \in 1..Len(m_results.list) |->
                policies_for_m_result(Head(rule_funcs), initial_scope,
                                      incoming_value, m_results.list[i])]))

policies(rule_funcs, initial_partial) ==
    policies_loop(rule_funcs, Partial_scope(initial_partial), PyNone,
                  List_unit(PyNone, initial_partial))

collect(rule_funcs, incoming_value, initial_partial) ==
    policies_loop(rule_funcs, Partial_scope(initial_partial), incoming_value,
                  List_unit(incoming_value, initial_partial))

\* value = node.value; if not value: value = node
regarding_value(node) ==
    IF Truthy(node_value(node)) THEN node_value(node) ELSE node

rescoped_tuple(value, rescoped) ==
    IF rescoped.exc THEN TupleRaised ELSE Tuple(value, rescoped.partial)

\* regarding leaving the scope where the rule function left it
regarding_for_result_keeps_scope(value, original_scope, result) ==
    Tuple(value, result.partial)

\* for_result: the outcome re-scoped to original_scope, carrying `value`
regarding_for_result(value, original_scope, result) ==
    rescoped_tuple(value, Partial_select(result.partial, original_scope, TRUE))

regarding_step_results(original_scope, value, results) ==
    List_fmap(results, [i \in 1..Len(results.list) |->
                  regarding_for_result(value, original_scope, results.list[i])])

regarding_step_run(rule_func, original_scope, value, inner_partial) ==
    regarding_step_results(original_scope, value, run(rule_func, value, inner_partial))

regarding_step_selected(rule_func, original_scope, selected) ==
    IF selected.exc THEN Raised
    ELSE regarding_step_run(rule_func, original_scope,
                            regarding_value(selected.value), selected.partial)

regarding_step(selector, rule_func, partial) ==
    regarding_step_selected(rule_func, Partial_scope(partial),
                            Partial_select(partial, selector, TRUE))

regarding(selector, rule_funcs, partial) ==
    IF rule_funcs # <<>>
    THEN policies([i \in 1..Len(rule_funcs) |-> RegardingStep(selector, rule_funcs[i])],
                  partial)
    ELSE bind(Select(selector, FALSE), UnitValueF, PyNone, partial)

given(selector, rule_funcs, partial) ==
    policies([i \in 1..Len(rule_funcs) |-> Bind(Select(selector, FALSE), rule_funcs[i])],
             partial)

\* ref_obj.get(key)
ref_get(ref_obj, key) ==
    IF key \in DOMAIN ref_obj.map THEN ref_obj.map[key] ELSE PyNone

\* each_step looking the key up in the tree although ref is given
each_step_ignores_ref(key, rule_func, ref_obj) ==
    Regarding(key, <<rule_func>>)

\* each_step(key, rule_func)
each_step(key, rule_func, ref_obj) ==
    IF ref_obj # PyNone
    THEN Regarding(key, <<Bind(Unit(ref_get(ref_obj, key)), rule_func)>>)
    ELSE Regarding(key, <<rule_func>>)

\* [each_step(key, rule_func) for rule_func in rule_funcs for key in keys]
RECURSIVE each_steps(_, _, _)
each_steps(rule_funcs, keys, ref_obj) ==
    IF rule_funcs = <<>> THEN <<>>
    ELSE [i \in 1..Len(keys) |-> each_step(keys[i].s, Head(rule_funcs), ref_obj)]
         \o each_steps(Tail(rule_funcs), keys, ref_obj)

\* `for key in keys`: a list yields its items, a str its characters, a dict
\* its keys; None and policy nodes are not iterable.  Every key must be a
\* str to be used as a selector.
IterItems(keys) ==
    IF "py" \notin DOMAIN keys THEN [exc |-> TRUE, items |-> <<>>]
    ELSE CASE keys.py = "list" -> [exc |-> FALSE, items |-> keys.items]
           [] keys.py = "str" ->
                [exc |-> FALSE, items |-> [i \in 1..Len(keys.s) |-> PyStr(<<keys.s[i]>>)]]
           [] keys.py = "dict" ->
                [exc |-> FALSE, items |-> KeyList(KeysInOrder(DOMAIN keys.map)).items]
           [] OTHER -> [exc |-> TRUE, items |-> <<>>]

AllStr(items) ==
    \A i \in 1..Len(items) : "py" \in DOMAIN items[i] /\ items[i].py = "str"

each_for_items(rule_funcs, ref_obj, iter, partial) ==
    IF iter.exc \/ (rule_funcs # <<>> /\ ~AllStr(iter.items)) THEN Raised
    ELSE regarding(<<>>, each_steps(rule_funcs, iter.items, ref_obj), partial)

\* each(*rule_funcs, ref=ref_obj)(keys)
each(rule_funcs, ref_obj, keys, partial) ==
    each_for_items(rule_funcs, ref_obj, IterItems(keys), partial)

\* partial.root.get('errors', None): only a dict has `get`
S_errors == <<"e", "r", "r", "o", "r", "s">>

root_get_errors(root) ==
    IF root.py # "dict" THEN [exc |-> TRUE, value |-> PyNone]
    ELSE [exc |-> FALSE,
          value |-> IF S_errors \in DOMAIN root.map THEN root.map[S_errors] ELSE PyNone]

unless_errors_for_errors(rules, partial, errors) ==
    IF errors.exc THEN Raised
    ELSE IF Truthy(errors.value) THEN List_unit(PyNone, partial)
    ELSE policies(rules, partial)

\* unless_errors that never looks at /errors
unless_errors_never_skips(rules, partial) == policies(rules, partial)

unless_errors(rules, partial) ==
    unless_errors_for_errors(rules, partial, root_get_errors(Partial_root(partial)))

\* require_value(node): mzero when the node, or the value, is missing
require_value_never_fails(node, partial) == List_unit(PyNone, partial)

require_value(node, partial) ==
    IF IsPolicyNode(node) /\ node_value(node) = PyNone THEN List_mzero
    ELSE IF node = PyNone THEN List_mzero
    ELSE List_unit(PyNone, partial)

\* forbid_value that fails as require_value does
forbid_value_when_missing(node, partial) ==
    IF IsPolicyNode(node) /\ node_value(node) = PyNone THEN List_mzero
    ELSE IF node = PyNone THEN List_mzero
    ELSE List_unit(PyNone, partial)

\* forbid_value(node): mzero when there is a value
forbid_value(node, partial) ==
    IF IsPolicyNode(node) /\ node_value(node) = PyNone THEN List_unit(PyNone, partial)
    ELSE IF node = PyNone THEN List_unit(PyNone, partial)
    ELSE List_mzero

\* Partial.get_template(): the template of the root node
Partial_get_template(self) == PolicyNode_get_template(self.root)

\* the scope_value property: the value of the node at the scope
Partial_scope_value(self) == Partial_select(self, Partial_scope(self), FALSE)

\* Partial.define_as: the scoped node becomes LeafPolicyNode(definition)
Partial_define_as_set(self, definition) ==
    IF ~CanReplaceAt(self.root, self.path) THEN TupleRaised
    ELSE Tuple(definition,
               Partial(ReplaceAt(self.root, self.path, LeafPolicyNode(definition)),
                       self.path))

\* valid, new_definition = definition.match(existing_value)
Partial_define_as_matched(self, m) ==
    IF ~m.matches THEN Tuple(PyNone, self)
    ELSE Partial_define_as_set(self, m.definition)

\* Partial.define_as(definition) -> (definition, new Partial) or (None, self);
\* `if existing_value:` is the truth value of the value at the scope
Partial_define_as_existing(self, definition, scope_value) ==
    IF scope_value.exc THEN TupleRaised
    ELSE IF Truthy(node_value(scope_value.value))
    THEN Partial_define_as_matched(self,
             Definition_match(definition, node_value(scope_value.value)))
    ELSE Partial_define_as_set(self, definition)

Partial_define_as(self, definition) ==
    Partial_define_as_existing(self, definition, Partial_scope_value(self))

\* define_as(definition): mzero when Partial.define_as returned None
define_as_result(defined) ==
    IF defined.exc THEN Raised
    ELSE IF defined.value = PyNone THEN List_mzero
    ELSE List_unit(defined.value, defined.partial)

define_as(definition, partial) == define_as_result(Partial_define_as(partial, definition))

\* trace_step(rule_func): the rule function is called with the trace object
\* {scope, value, context}; every outcome is re-scoped to `scope`
S_scope == <<"s", "c", "o", "p", "e">>
S_value == <<"v", "a", "l", "u", "e">>
trace_obj(at_scope, value, context) ==
    PyDict((S_scope :> PyStr(at_scope)) @@ (S_value :> value) @@ (S_context :> context))

trace_step_results(at_scope, results) ==
    List_fmap(results, [i \in 1..Len(results.list) |->
                  rescoped_tuple(results.list[i].value,
                                 Partial_select(results.list[i].partial, at_scope, TRUE))])

trace_step_traced(rule_func, partial, value, context_node) ==
    IF value.exc \/ context_node.exc THEN Raised
    ELSE trace_step_results(Partial_scope(partial),
            run(rule_func,
                trace_obj(Partial_scope(partial), node_value(value.value),
                          node_value(context_node.value)),
                partial))

trace_step(rule_func, partial) ==
    trace_step_traced(rule_func, partial, Partial_scope_value(partial),
                      Partial_select(partial, S_abs_context, TRUE))

\* trace(*rule_funcs): policies of the trace steps; [unit] when none given
trace(rule_funcs, partial) ==
    policies(IF rule_funcs = <<>> THEN <<TraceStep(UnitF)>>
             ELSE [i \in 1..Len(rule_funcs) |-> TraceStep(rule_funcs[i])],
             partial)

push_context(context, partial) == List_unit_tuple(Partial_push_context(partial, context))

\* pop_context returning what pop_context() of the Partial returned
pop_context_popped_returns_frame(passthru, popped) ==
    IF popped.exc THEN Raised ELSE List_unit(popped.value, popped.partial)

\* pop_context(passthru): the popped frame is dropped, passthru is the value
pop_context_popped(passthru, popped) ==
    IF popped.exc THEN Raised ELSE List_unit(passthru, popped.partial)

pop_context(passthru, partial) == pop_context_popped(passthru, Partial_pop_context(partial))

\* wrap_context without the pop
wrap_context_never_pops(context, op, value, partial) ==
    bind(PushContext(context), op, value, partial)

\* wrap_context(context, op): push_context(context) >> op >> pop_context
wrap_context(context, op, value, partial) ==
    bind(Bind(PushContext(context), op), PopContextF, value, partial)

\* attempt without its fallback: the result of the rules as it is
attempt_result_no_fallback(has_catch, catch, value, initial_partial, result) ==
    result

\* attempt running catch and the default on a fresh unit(None) instead of
\* the value it received
attempt_result_drops_value(has_catch, catch, value, initial_partial, result) ==
    IF result = List_mzero
    THEN IF has_catch THEN bind(Unit(PyNone), catch, PyNone, initial_partial)
         ELSE List_unit(PyNone, initial_partial)
    ELSE result

\* attempt: the result of the rules, or the fallback when it is mzero
attempt_result(has_catch, catch, value, initial_partial, result) ==
    IF result = List_mzero
    THEN IF has_catch THEN bind(Unit(value), catch, PyNone, initial_partial)
         ELSE List_unit(value, initial_partial)
    ELSE result

\* attempt that adds its fallback outcome to the result of the rules
attempt_adds_fallback(rules, has_catch, catch, value, initial_partial) ==
    List_mplus(bind(Unit(value), Collect(rules), PyNone, initial_partial),
               List_unit(value, initial_partial))

attempt(rules, has_catch, catch, value, initial_partial) ==
    attempt_result(has_catch, catch, value, initial_partial,
                   bind(Unit(value), Collect(rules), PyNone, initial_partial))

run(rule_func, value, partial) ==
    CASE rule_func.op = "unit" -> unit(rule_func.value, partial)
      [] rule_func.op = "set_value" -> set_value(rule_func.value, partial)
      [] rule_func.op = "select" ->
            select(rule_func.selector, rule_func.set_path, partial)
      [] rule_func.op = "scope" -> scope(partial)
      [] rule_func.op = "get_node" -> get_node(partial)
      [] rule_func.op = "children" -> children(partial)
      [] rule_func.op = "check" -> check(rule_func.value, partial)
      [] rule_func.op = "define_as" -> define_as(rule_func.definition, partial)
      [] rule_func.op = "fail" -> fail(partial)
      [] rule_func.op = "match" -> match(rule_func.value, partial)
      [] rule_func.op = "permit_values" -> permit_values(rule_func.values, partial)
      [] rule_func.op = "policies" -> policies(rule_func.rule_funcs, partial)
      [] rule_func.op = "regarding" ->
            regarding(rule_func.selector, rule_func.rule_funcs, partial)
      [] rule_func.op = "regarding_step" ->
            regarding_step(rule_func.selector, rule_func.rule_func, partial)
      [] rule_func.op = "given" ->
            given(rule_func.selector, rule_func.rule_funcs, partial)
      [] rule_func.op = "bind" -> bind(rule_func.left, rule_func.right, value, partial)
      [] rule_func.op = "unit_f" -> unit(value, partial)
      [] rule_func.op = "unit_value_f" -> unit_value(value, partial)
      [] rule_func.op = "set_value_f" -> set_value(value, partial)
      [] rule_func.op = "match_f" -> match(value, partial)
      [] rule_func.op = "with_value" -> with_value(rule_func.func, value, partial)
      [] rule_func.op = "push_context" -> push_context(rule_func.context, partial)
      [] rule_func.op = "pop_context_f" -> pop_context(value, partial)
      [] rule_func.op = "wrap_context" ->
            wrap_context(rule_func.context, rule_func.rule, value, partial)
      [] rule_func.op = "unless_errors" -> unless_errors(rule_func.rules, partial)
      [] rule_func.op = "require_value" -> require_value(rule_func.node, partial)
      [] rule_func.op = "forbid_value" -> forbid_value(rule_func.node, partial)
      [] rule_func.op = "require_value_f" -> require_value(value, partial)
      [] rule_func.op = "forbid_value_f" -> forbid_value(value, partial)
      [] rule_func.op = "permit_values_f" ->
            IF "py" \in DOMAIN value /\ value.py = "list"
            THEN permit_values(value.items, partial) ELSE Raised
      [] rule_func.op = "add_error_f" -> run(AddError(value), PyNone, partial)
      [] rule_func.op = "trace" -> trace(rule_func.rule_funcs, partial)
      [] rule_func.op = "trace_step" -> trace_step(rule_func.rule_func, partial)
      [] rule_func.op = "lambda" -> run_called(call_lambda(rule_func.func, value), partial)
      [] rule_func.op = "each" ->
            each(rule_func.rule_funcs, rule_func.ref, value, partial)
      [] rule_func.op = "collect" -> collect(rule_func.rule_funcs, value, partial)
      [] rule_func.op = "attempt" ->
            attempt(rule_func.rules, rule_func.has_catch,
                    IF rule_func.has_catch THEN rule_func.catch ELSE Fail,
                    value, partial)

(***************************************************************************)
(* The same evaluation in small steps.  `run` above computes the result of *)
(* a rule in one evaluation, nested as deep as the rule; a policy written  *)
(* with the builders of contexts/ nests dozens of combinators, so its run  *)
(* is also given one combinator at a time: an evaluation is either         *)
(* running a rule on a Partial or returning a result, under the stack of   *)
(* the combinators that wait for that result.  Rules that run no other     *)
(* rule are evaluated by `run`.  An exception unwinds the whole stack.     *)
(***************************************************************************)
Running(rule_func, value, partial, stack) ==
    [value |-> value, partial |-> partial, rule_func |-> rule_func,
     mode |-> "run", stack |-> stack]

Returning(result, stack) == [mode |-> "return", result |-> result, stack |-> stack]

Unwinding == Returning(Raised, <<>>)

\* for_state_result / for_m_result of StateT.bind: `right` waits for the
\* results of `left`
LeftFrame(right) == [right |-> right, frame |-> "left"]

\* `m_results >> function` of the List monad, part-way: `todo` are the
\* outcomes `right` has not been run on, `acc` the outcomes it produced
BindFrame(right, todo, acc) ==
    [right |-> right, frame |-> "bind", todo |-> todo, acc |-> acc]

\* the loop of policies / collect, with the rule functions still to bind
LoopFrame(rule_funcs, initial_scope, incoming_value) ==
    [value |-> incoming_value, rule_funcs |-> rule_funcs, frame |-> "loop",
     to_scope |-> initial_scope]

\* regarding_step waiting for rule_func(value).run(inner_partial)
RegardingFrame(value, original_scope) ==
    [value |-> value, frame |-> "regarding", to_scope |-> original_scope]

\* trace_step waiting for rule_func(trace_obj).run(partial)
TraceFrame(at_scope) == [frame |-> "trace", to_scope |-> at_scope]

\* attempt waiting for (unit(value) >> collect(*rules)).run(initial_partial)
AttemptFrame(has_catch, catch, value, initial_partial) ==
    [has_catch |-> has_catch, value |-> value, partial |-> initial_partial,
     catch |-> catch, frame |-> "attempt"]

\* for_m_result of policies / collect as a rule: select(initial_scope), then
\* rule_func(incoming_value)
ForMResult(rule_func, initial_scope, incoming_value) ==
    [op |-> "for_m_result", value |-> incoming_value, rule_func |-> rule_func,
     to_scope |-> initial_scope]

\* m_results >> right: right is run on every outcome, in order
ForEachResult(m_results, right, stack) ==
    IF m_results.exc THEN Unwinding
    ELSE IF m_results.list = <<>> THEN Returning(List_mzero, stack)
    ELSE Running(right, m_results.list[1].value, m_results.list[1].partial,
                 <<BindFrame(right, Tail(m_results.list), <<>>)>> \o stack)

RunningCalled(called, partial, stack) ==
    IF called.exc THEN Unwinding ELSE Running(called.rule, PyNone, partial, stack)

RunningScoped(rule_func, incoming_value, scoped, stack) ==
    IF scoped.exc THEN Unwinding
    ELSE Running(rule_func, incoming_value, scoped.partial, stack)

RunningRegardingStep(rule_func, original_scope, selected, stack) ==
    IF selected.exc THEN Unwinding
    ELSE Running(rule_func, regarding_value(selected.value), selected.partial,
                 <<RegardingFrame(regarding_value(selected.value), original_scope)>>
                 \o stack)

RunningTraceStep(rule_func, partial, value, context_node, stack) ==
    IF value.exc \/ context_node.exc THEN Unwinding
    ELSE Running(rule_func,
                 trace_obj(Partial_scope(partial), node_value(value.value),
                           node_value(context_node.value)),
                 partial, <<TraceFrame(Partial_scope(partial))>> \o stack)

RunningUnlessErrors(rules, partial, errors, stack) ==
    IF errors.exc THEN Unwinding
    ELSE IF Truthy(errors.value) THEN Returning(List_unit(PyNone, partial), stack)
    ELSE Running(Policies(rules), PyNone, partial, stack)

RunningEach(rule_funcs, ref_obj, iter, partial, stack) ==
    IF iter.exc \/ (rule_funcs # <<>> /\ ~AllStr(iter.items)) THEN Unwinding
    ELSE Running(Regarding(<<>>, each_steps(rule_funcs, iter.items, ref_obj)),
                 PyNone, partial, stack)

\* one step of running rule_func(value) on partial
StepRunning(rule_func, value, partial, stack) ==
    CASE rule_func.op = "bind" ->
            Running(rule_func.left, value, partial,
                    <<LeftFrame(rule_func.right)>> \o stack)
      [] rule_func.op = "for_m_result" ->
            RunningScoped(rule_func.rule_func, rule_func.value,
                          Partial_select(partial, rule_func.to_scope, TRUE), stack)
      [] rule_func.op = "policies" ->
            Returning(List_unit(PyNone, partial),
                      <<LoopFrame(rule_func.rule_funcs, Partial_scope(partial), PyNone)>>
                      \o stack)
      [] rule_func.op = "collect" ->
            Returning(List_unit(value, partial),
                      <<LoopFrame(rule_func.rule_funcs, Partial_scope(partial), value)>>
                      \o stack)
      [] rule_func.op = "regarding" ->
            IF rule_func.rule_funcs # <<>>
            THEN Running(Policies([i \in 1..Len(rule_func.rule_funcs) |->
                            RegardingStep(rule_func.selector, rule_func.rule_funcs[i])]),
                         PyNone, partial, stack)
            ELSE Running(Bind(Select(rule_func.selector, FALSE), UnitValueF),
                         PyNone, partial, stack)
      [] rule_func.op = "regarding_step" ->
            RunningRegardingStep(rule_func.rule_func, Partial_scope(partial),
                                 Partial_select(partial, rule_func.selector, TRUE),
                                 stack)
      [] rule_func.op = "given" ->
            Running(Policies([i \in 1..Len(rule_func.rule_funcs) |->
                        Bind(Select(rule_func.selector, FALSE), rule_func.rule_funcs[i])]),
                    PyNone, partial, stack)
      [] rule_func.op = "with_value" ->
            IF ~IsPolicyNode(value) THEN Unwinding
            ELSE RunningCalled(call_lambda(rule_func.func, node_value(value)),
                               partial, stack)
      [] rule_func.op = "lambda" ->
            RunningCalled(call_lambda(rule_func.func, value), partial, stack)
      [] rule_func.op = "wrap_context" ->
            Running(Bind(Bind(PushContext(rule_func.context), rule_func.rule),
                         PopContextF),
                    value, partial, stack)
      [] rule_func.op = "unless_errors" ->
            RunningUnlessErrors(rule_func.rules, partial,
                                root_get_errors(Partial_root(partial)), stack)
      [] rule_func.op = "add_error_f" -> Running(AddError(value), PyNone, partial, stack)
      [] rule_func.op = "trace" ->
            Running(Policies(IF rule_func.rule_funcs = <<>> THEN <<TraceStep(UnitF)>>
                             ELSE [i \in 1..Len(rule_func.rule_funcs) |->
                                      TraceStep(rule_func.rule_funcs[i])]),
                    PyNone, partial, stack)
      [] rule_func.op = "trace_step" ->
            RunningTraceStep(rule_func.rule_func, partial, Partial_scope_value(partial),
                             Partial_select(partial, S_abs_context, TRUE), stack)
      [] rule_func.op = "each" ->
            RunningEach(rule_func.rule_funcs, rule_func.ref, IterItems(value),
                        partial, stack)
      [] rule_func.op = "attempt" ->
            Running(Bind(Unit(value), Collect(rule_func.rules)), PyNone, partial,
                    <<AttemptFrame(rule_func.has_catch,
                                   IF rule_func.has_catch THEN rule_func.catch ELSE Fail,
                                   value, partial)>> \o stack)
      [] OTHER -> Returning(run(rule_func, value, partial), stack)

\* one step of handing `result` to the combinator that waits for it
StepReturning(result, waiting, stack) ==
    CASE result.exc -> Unwinding
      [] waiting.frame = "left" -> ForEachResult(result, waiting.right, stack)
      [] waiting.frame = "bind" ->
            IF waiting.todo = <<>>
            THEN Returning(List(waiting.acc \o result.list), stack)
            ELSE Running(waiting.right, Head(waiting.todo).value,
                         Head(waiting.todo).partial,
                         <<BindFrame(waiting.right, Tail(waiting.todo),
                                     waiting.acc \o result.list)>> \o stack)
      [] waiting.frame = "loop" ->
            IF waiting.rule_funcs = <<>> THEN Returning(result, stack)
            ELSE ForEachResult(result,
                    ForMResult(Head(waiting.rule_funcs), waiting.to_scope,
                               waiting.value),
                    <<LoopFrame(Tail(waiting.rule_funcs), waiting.to_scope,
                                waiting.value)>> \o stack)
      [] waiting.frame = "regarding" ->
            Returning(regarding_step_results(waiting.to_scope, waiting.value, result),
                      stack)
      [] waiting.frame = "trace" ->
            Returning(trace_step_results(waiting.to_scope, result), stack)
      [] waiting.frame = "attempt" ->
            IF result # List_mzero THEN Returning(result, stack)
            ELSE IF waiting.has_catch
            THEN Running(Bind(Unit(waiting.value), waiting.catch), PyNone,
                         waiting.partial, stack)
            ELSE Returning(List_unit(waiting.value, waiting.partial), stack)

\* an evaluation is over when a result is returned to nobody
IsOver(evaluation) == evaluation.mode = "return" /\ evaluation.stack = <<>>

Step(evaluation) ==
    IF evaluation.mode = "run"
    THEN StepRunning(evaluation.rule_func, evaluation.value, evaluation.partial,
                     evaluation.stack)
    ELSE StepReturning(evaluation.result, Head(evaluation.stack),
                       Tail(evaluation.stack))

\* the result of an evaluation: its steps taken until it is over
RECURSIVE Stepped(_)
Stepped(evaluation) ==
    IF IsOver(evaluation) THEN evaluation.result ELSE Stepped(Step(evaluation))

(***************************************************************************)
(* The evaluation harness.  A Partial is built from a request object and   *)
(* scoped; a rule is then run on it with an incoming value, and `results`  *)
(* holds the outcomes (rule.run(partial)).                                 *)
(***************************************************************************)
VARIABLES
    partial,    \* the Partial the rule is run on
    value,      \* the value the rule function is bound to
    rule,       \* the rule (or rule function) that was run last
    results,    \* its result: the ordered outcomes, or Raised
    builders,   \* the root builder, with the builders created under it
    finalized,  \* what finalize() and the complete() calls after it returned
    evaluation, \* the evaluation in progress, when a policy is run in steps
    calls,      \* how many times the function given to check was called
    defaults,   \* BasePolicy.defaults: the class-level lists every run shares
    requests    \* the request objects passed to run(), as run() left them

vars == <<partial, value, rule, results, builders, finalized, evaluation, calls, defaults, requests>>

\* bounds of the model
MaxValues == 2      \* longest permitted_values list
MaxRules == 2       \* longest list of rules given to one combinator

\* strings
S_a == <<"a">>
S_b == <<"b">>
S_x == <<"x">>
S_y == <<"y">>
S_root == <<"/">>
S_abs_a == <<"/", "a">>
S_abs_b == <<"/", "b">>
S_abs_a_b == <<"/", "a", "/", "b">>
S_up == <<".", ".">>
S_empty == <<>>

V_x == PyStr(S_x)
V_y == PyStr(S_y)
V_empty == PyStr(S_empty)

Values == {V_x, V_y, V_empty}
IncomingValues == {PyNone, V_x}
Selectors == {S_empty, S_a, S_b, S_abs_a, S_abs_b, S_abs_a_b, S_up}

\* all sequences over S of length at most n
SeqsUpTo(S, n) == UNION {[1..k -> S] : k \in 0..n}

\* request objects
EmptyObj == PyDict(<<>>)
Objs == {
    EmptyObj,
    PyDict([k \in {S_a} |-> V_x]),
    PyDict([k \in {S_a} |-> V_empty]),
    PyDict([k \in {S_a, S_b} |-> IF k = S_a THEN V_y ELSE V_x]),
    PyDict([k \in {S_a} |-> PyDict([j \in {S_b} |-> V_x])])
}

\* the Partials an evaluation starts from: Partial() or Partial.from_obj(obj),
\* scoped by select(scope, set_path=True)
InitialScopes == {S_root, S_abs_a, S_abs_a_b}
InitialPartials ==
    LET starts == {NewPartial} \cup {Partial_from_obj(obj) : obj \in Objs}
        scoped == {Partial_select(p, sel, TRUE) : p \in starts, sel \in InitialScopes}
    IN {t.partial : t \in {u \in scoped : ~u.exc}}

NoRule == [op |-> "none"]

\* BasePolicy.defaults = {"errors": [], "context": []}, a class attribute
ClassDefaults == [k \in {S_errors, S_context} |-> PyList(<<>>)]
\* no request object was passed to run() yet
NoRuns == defaults = ClassDefaults /\ requests = <<>>

\* no builder is involved when a rule is evaluated as written
NotStarted == <<>>
NoBuilders ==
    builders = <<>> /\ finalized = <<>> /\ evaluation = NotStarted /\ calls = 0 /\ NoRuns

Init ==
    /\ partial \in InitialPartials
    /\ value \in IncomingValues
    /\ rule = NoRule
    /\ results = List_unit(value, partial)
    /\ NoBuilders

\* run `rule_func` bound to the incoming value on the Partial; one policy is
\* evaluated per execution
Evaluate(rule_func) ==
    /\ rule = NoRule
    /\ rule' = rule_func
    /\ results' = run(rule_func, value, partial)
    /\ UNCHANGED <<partial, value, builders, finalized, evaluation, calls, defaults, requests>>

RunPermitValues ==
    \E permitted_values \in SeqsUpTo(Values, MaxValues) :
        Evaluate(PermitValues(permitted_values))

RunMatch == \E v \in Values : Evaluate(Match(v))

RunSetValue == \E v \in Values : Evaluate(SetValue(v))

RunFail == Evaluate(Fail)

RunSelect ==
    \E selector \in Selectors, set_path \in BOOLEAN :
        Evaluate(Select(selector, set_path))

\* rule >> rule_func
BindLefts == {
    PermitValues(<<V_x, V_y>>), PermitValues(<<V_y, V_x, V_x>>), Match(V_x), Fail,
    Scope, GetNode, Select(S_b, TRUE), Regarding(S_a, <<PermitValues(<<V_empty, V_x>>)>>)
}
BindRights == {
    UnitF, SetValueF, MatchF, UnitValueF,
    Fail, Scope, PermitValues(<<V_x, V_y>>), Select(S_a, TRUE),
    Regarding(S_b, <<PermitValues(<<V_x, V_y>>)>>)
}
RunBind ==
    \E left \in BindLefts, right \in BindRights : Evaluate(Bind(left, right))

\* the rules sequenced by policies: checks and assignments regarding a node,
\* forks, failure, rules that leave the scope elsewhere, and probes
PolicySelectors == {S_abs_a, S_b}
OtherValue(v) == IF v = V_y THEN V_x ELSE V_y

PolicyAtoms(p, v) == {
    Regarding(p, <<Match(v)>>),
    Regarding(p, <<SetValue(v)>>),
    Regarding(p, <<PermitValues(<<v, OtherValue(v)>>)>>),
    Regarding(p, <<>>),
    PermitValues(<<v, OtherValue(v)>>),
    Fail,
    Scope,
    Select(p, TRUE)
}

\* the node and the value a policy is about: an absolute selector with a
\* truthy value, a relative selector with the empty string
PolicySubjects == {<<S_abs_a, V_x>>, <<S_b, V_empty>>}

RunPolicies ==
    \E subject \in PolicySubjects :
        \E rule_funcs \in SeqsUpTo(PolicyAtoms(subject[1], subject[2]), MaxRules) :
            Evaluate(Policies(rule_funcs))

\* the primitive rules and their composition with bind
Next ==
    \/ RunPermitValues
    \/ RunMatch
    \/ RunSetValue
    \/ RunFail
    \/ RunSelect
    \/ RunBind

Spec == Init /\ [][Next]_vars

\* rules in sequence
NextPolicies ==
    \/ RunFail
    \/ RunPolicies

SpecPolicies == Init /\ [][NextPolicies]_vars

(***************************************************************************)
\* attempt(*rules) and attempt(*rules, catch=...) as the rule function it is,
\* called with the incoming value
AttemptAtoms == {
    SetValue(V_y),
    SetValueF,
    Select(S_b, TRUE),
    Fail,
    Regarding(S_abs_a, <<Match(V_x)>>),
    PermitValues(<<V_x, V_y>>)
}
AttemptCatches == {SetValueF, Fail, PermitValues(<<V_y, V_x>>)}

RunAttempt ==
    \E rules \in SeqsUpTo(AttemptAtoms, MaxRules) :
        \/ Evaluate(Attempt(rules))
        \/ \E catch \in AttemptCatches : Evaluate(AttemptCatch(rules, catch))

NextAttempt ==
    \/ RunFail
    \/ RunAttempt

SpecAttempt == Init /\ [][NextAttempt]_vars

\* attempt after a fork, as in test_attempt:
\* permit_values(vs), attempt(match(m), set_value(c))
ForkedAttempts ==
    {<<Match(m), SetValue(c)>> : m \in Values, c \in Values}
    \cup {<<Match(m)>> : m \in Values}
    \cup {<<Fail>>, <<SetValue(V_x), Fail>>}

ForkAttempt(vs, rules) ==
    {Bind(PermitValues(vs), Attempt(rules)),
     Policies(<<PermitValues(vs), Attempt(rules)>>),
     Regarding(S_abs_b, <<PermitValues(vs), Attempt(rules)>>)}

RunForkAttempt ==
    \E vs \in SeqsUpTo(Values, MaxValues) \ {<<>>} :
    \E rules \in ForkedAttempts :
    \E rule_func \in ForkAttempt(vs, rules) :
        Evaluate(rule_func)

NextForkAttempt ==
    \/ RunAttempt
    \/ RunForkAttempt

SpecForkAttempt == Init /\ [][NextForkAttempt]_vars

\* a fork followed by a later operation on every branch, composed with >>
\* and with policies: permit_values(vs) >> later, policies(fork, later)
IsolationForks ==
    {PermitValues(vs) : vs \in SeqsUpTo(Values, MaxValues) \ {<<>>}}
    \cup {Regarding(S_abs_a, <<PermitValues(<<V_x, V_y>>)>>),
          AttemptCatch(<<Fail>>, PermitValues(<<V_y, V_x>>))}

IsolationLaters == {
    SetValue(V_y), SetValueF, Match(V_x), Fail, Select(S_b, TRUE),
    Regarding(S_abs_b, <<SetValue(V_x)>>), PermitValues(<<V_x, V_y>>),
    Policies(<<Match(V_x), SetValue(V_y)>>)
}

RunForkBind ==
    \E fork \in IsolationForks, later \in IsolationLaters :
        Evaluate(Bind(fork, later))

RunForkPolicies ==
    \E fork \in IsolationForks, later \in IsolationLaters :
        Evaluate(Policies(<<fork, later>>))

NextIsolation ==
    \/ RunForkBind
    \/ RunForkPolicies

SpecIsolation == Init /\ [][NextIsolation]_vars

\* select(p, set_path=True) >> select(p, set_path=True) for absolute p
AbsoluteSelectors == {S_root, S_abs_a, S_abs_b, S_abs_a_b}

RunSelectTwice ==
    \E selector \in AbsoluteSelectors :
        Evaluate(Bind(Select(selector, TRUE), Select(selector, TRUE)))

NextSelect ==
    \/ RunSelect
    \/ RunSelectTwice

SpecSelect == Init /\ [][NextSelect]_vars

\* define_as(definition) with the literal definitions Value(v)
RunDefineAs == \E v \in Values : Evaluate(DefineAs(Value(v)))

\* rules that write the node at the scope
NextDefinitions ==
    \/ RunDefineAs
    \/ RunSetValue
    \/ RunMatch

SpecDefinitions == Init /\ [][NextDefinitions]_vars

\* what require_value and forbid_value are given: None, nodes with and
\* without a value, and values that are not nodes
PresenceNodes ==
    {PyNone, UnknownPolicyNode, V_x, V_empty,
     LeafPolicyNode(Value(PyNone)), LeafPolicyNode(Value(V_x)),
     LeafPolicyNode(Value(V_empty))}
    \cup {from_obj(obj) : obj \in Objs}

RunRequireValue == \E node \in PresenceNodes : Evaluate(RequireValue(node))

RunForbidValue == \E node \in PresenceNodes : Evaluate(ForbidValue(node))

\* select(selector) >> require_value, select(selector) >> forbid_value
RunSelectPresence ==
    \E selector \in Selectors, f \in {RequireValueF, ForbidValueF} :
        Evaluate(Bind(Select(selector, FALSE), f))

NextPresence ==
    \/ RunRequireValue
    \/ RunForbidValue
    \/ RunSelectPresence

SpecPresence == Init /\ [][NextPresence]_vars

\* selectors that lead below a concrete value, alone and inside attempt
NextStructural ==
    \/ RunSelect
    \/ RunAttempt

SpecStructural == Init /\ [][NextStructural]_vars

\* a rule that records the scope it runs in: scope() >> set_value writes
\* the scope string into the scoped node
ScopeProbe == Bind(Scope, SetValueF)

\* regarding(selector, *rule_funcs): rules that fork, fail, leave the scope
\* elsewhere, record their scope, and nested regardings with relative
\* selectors
RegardingAtoms == {
    ScopeProbe,
    Select(S_b, TRUE),
    PermitValues(<<V_x, V_y>>),
    Fail,
    Regarding(S_b, <<Regarding(S_a, <<ScopeProbe>>)>>)
}
RegardingSelectors == {S_b, S_abs_a, S_abs_a_b, S_up}

RunRegarding ==
    \E selector \in RegardingSelectors :
        \E rule_funcs \in SeqsUpTo(RegardingAtoms, MaxRules) \ {<<>>} :
            Evaluate(Regarding(selector, rule_funcs))

\* regarding(selector) without rule functions reads the node at selector
RunRegardingRead ==
    \E selector \in Selectors : Evaluate(Regarding(selector, <<>>))

\* regarding(p, given(q, *rule_funcs)): the rule functions receive the node
\* at q and run at p
GivenAtoms == {
    WithValue(LambdaSetValueConcat(S_y)),
    WithValue(LambdaSetValueConcat(S_empty)),
    UnitValueF,
    Fail
}
GivenScopes == {S_abs_b, S_b, S_abs_a}
GivenSelectors == {S_abs_a, S_abs_a_b, S_a}

RunGiven ==
    \E p \in GivenScopes, q \in GivenSelectors :
        \E rule_funcs \in SeqsUpTo(GivenAtoms, MaxRules) \ {<<>>} :
            Evaluate(Regarding(p, <<Given(q, rule_funcs)>>))

NextRegarding ==
    \/ RunRegarding
    \/ RunRegardingRead
    \/ RunGiven

SpecRegarding == Init /\ [][NextRegarding]_vars

\* regarding(selector, *rule_funcs) at a node that holds a value, with
\* functions that show what they were called with; the values include the
\* ones python counts as false
V_0 == PyInt(0)
StoredValues == {V_x, V_empty, V_0, PyInt(1), PyBool(FALSE), PyBool(TRUE), PyList(<<>>), PyList(<<V_x>>)}
StoredObjs ==
    {PyDict([k \in {S_a} |-> v]) : v \in StoredValues}
    \cup {PyDict([k \in {S_a, S_b} |-> IF k = S_a THEN v ELSE V_y]) : v \in StoredValues}

InitStored ==
    /\ partial \in {Partial_from_obj(obj) : obj \in StoredObjs}
    /\ value \in IncomingValues
    /\ rule = NoRule
    /\ results = List_unit(value, partial)
    /\ NoBuilders

Receivers == {UnitF, SetValueF, MatchF, Lambda(LambdaSetValueConcat(S_y))}

RunRegardingStored ==
    \E rule_func \in Receivers : Evaluate(Regarding(S_abs_a, <<rule_func>>))

RunRegardingStoredTwice ==
    \E first \in Receivers \cup {Fail}, second \in Receivers :
        Evaluate(Regarding(S_abs_a, <<first, second>>))

NextStored ==
    \/ RunRegardingStored
    \/ RunRegardingStoredTwice

SpecStored == InitStored /\ [][NextStored]_vars

\* fail alone and in sequences
NextSequencing ==
    \/ RunFail
    \/ RunPolicies
    \/ RunRegarding

SpecSequencing == Init /\ [][NextSequencing]_vars

\* children() and each(): request objects with up to three keys, scoped at
\* Dict, Leaf and Unknown nodes
S_c == <<"c">>

ChildObjs == {
    EmptyObj,
    PyDict([k \in {S_a} |-> V_x]),
    PyDict([k \in {S_a, S_b, S_c} |-> IF k = S_b THEN V_y ELSE V_x]),
    PyDict([k \in {S_a, S_b} |->
               IF k = S_a THEN PyDict([j \in {S_b, S_c} |-> IF j = S_b THEN V_x ELSE V_y])
               ELSE V_x])
}

ChildPartials ==
    LET starts == {NewPartial} \cup {Partial_from_obj(obj) : obj \in ChildObjs}
        scoped == {Partial_select(p, sel, TRUE) : p \in starts, sel \in InitialScopes}
    IN {t.partial : t \in {u \in scoped : ~u.exc}}

InitChildren ==
    /\ partial \in ChildPartials
    /\ value \in IncomingValues
    /\ rule = NoRule
    /\ results = List_unit(value, partial)
    /\ NoBuilders

RunChildren == Evaluate(Children)

\* children() called twice, the two lists compared
RunChildrenTwice == Evaluate(Bind(Children, Lambda(LambdaChildrenEqual)))

ConcatY == Lambda(LambdaSetValueConcat(S_y))
ConcatX == Lambda(LambdaSetValueConcat(S_x))

\* children() >> each(*rule_funcs)
EachAtoms == {ConcatY, ConcatX, ScopeProbe, SetValueF, PermitValues(<<V_x, V_y>>), Fail}

RunEach ==
    \E rule_funcs \in SeqsUpTo(EachAtoms, MaxRules) :
        Evaluate(Bind(Children, Each(rule_funcs, PyNone)))

\* children() >> each(*rule_funcs, ref=ref_obj)
RefObjs == {
    EmptyObj,
    PyDict([k \in {S_a} |-> V_empty]),
    PyDict([k \in {S_b, S_c} |-> IF k = S_b THEN V_y ELSE V_x]),
    PyDict([k \in {S_a, S_b, S_c} |-> IF k = S_b THEN V_x ELSE V_y])
}
EachRefAtoms == {SetValueF, ConcatY, ScopeProbe}

RunEachRef ==
    \E ref_obj \in RefObjs :
        \E rule_funcs \in SeqsUpTo(EachRefAtoms, MaxRules) \ {<<>>} :
            Evaluate(Bind(Children, Each(rule_funcs, ref_obj)))

NextChildren ==
    \/ RunChildren
    \/ RunChildrenTwice
    \/ RunEach
    \/ RunEachRef

SpecChildren == InitChildren /\ [][NextChildren]_vars

\* unless_errors(*rules): requests with and without recorded errors, and
\* Partials whose root is not a mapping
RecordedError == PyDict([k \in {S_a} |-> V_x])

ErrorObjs == {
    EmptyObj,
    PyDict([k \in {S_errors} |-> PyList(<<>>)]),
    PyDict([k \in {S_errors} |-> PyList(<<RecordedError>>)]),
    PyDict([k \in {S_a, S_errors} |-> IF k = S_a THEN V_x ELSE PyList(<<>>)]),
    PyDict([k \in {S_a, S_errors} |->
               IF k = S_a THEN V_y ELSE PyList(<<RecordedError, RecordedError>>)]),
    V_x
}

ErrorScopes == {S_root, S_abs_a}

ErrorPartials ==
    LET starts == {NewPartial} \cup {Partial_from_obj(obj) : obj \in ErrorObjs}
        scoped == {Partial_select(p, sel, TRUE) : p \in starts, sel \in ErrorScopes}
    IN {t.partial : t \in {u \in scoped : ~u.exc}}

InitErrors ==
    /\ partial \in ErrorPartials
    /\ value \in IncomingValues
    /\ rule = NoRule
    /\ results = List_unit(value, partial)
    /\ NoBuilders

RunUnlessErrors ==
    \E subject \in PolicySubjects :
        \E rules \in SeqsUpTo(PolicyAtoms(subject[1], subject[2]), MaxRules) :
            Evaluate(UnlessErrors(rules))

NextErrors ==
    \/ RunUnlessErrors

SpecErrors == InitErrors /\ [][NextErrors]_vars

\* unless_errors over checks that record an error, bare and each wrapped
\* in an unless_errors of its own, and over rules that record nothing
RecordingCheck == AddError(RecordedError)
CascadeAtoms ==
    {RecordingCheck,
     UnlessErrors(<<RecordingCheck>>),
     Regarding(S_abs_a, <<SetValue(V_x)>>),
     Regarding(S_abs_b, <<PermitValues(<<V_x, V_y>>)>>)}

RunCascade ==
    \E rules \in SeqsUpTo(CascadeAtoms, MaxRules) \ {<<>>} :
        Evaluate(UnlessErrors(rules))

NextCascade ==
    \/ RunCascade

SpecCascade == InitErrors /\ [][NextCascade]_vars

\* wrap_context(frame, rule): requests with an empty and a non-empty
\* /context list, and without one
F0 == ContextFrame(S_root, Unit(PyNone))
F1 == ContextFrame(S_a, Fail)
F2 == ContextFrame(S_b, Fail)

ContextObjs == {
    EmptyObj,
    PyDict([k \in {S_context} |-> PyList(<<>>)]),
    PyDict([k \in {S_context} |-> PyList(<<F0>>)]),
    PyDict([k \in {S_a, S_context} |-> IF k = S_a THEN V_x ELSE PyList(<<>>)]),
    PyDict([k \in {S_a, S_context} |-> IF k = S_a THEN V_y ELSE PyList(<<F0>>)])
}

ContextPartials ==
    LET starts == {Partial_from_obj(obj) : obj \in ContextObjs}
        scoped == {Partial_select(p, sel, TRUE) : p \in starts, sel \in ErrorScopes}
    IN {t.partial : t \in {u \in scoped : ~u.exc}}

InitContext ==
    /\ partial \in ContextPartials
    /\ value \in IncomingValues
    /\ rule = NoRule
    /\ results = List_unit(value, partial)
    /\ NoBuilders

\* a rule that records the /context list it runs under at `selector`:
\* select("/context") >> unit_value >> (lambda v: regarding(selector, set_value(v)))
ContextProbe(selector) ==
    Bind(Bind(Select(S_abs_context, FALSE), UnitValueF),
         Lambda(LambdaRegardingSetValue(selector)))

\* the rules wrapped: probes, values, forks, failure, a rule that leaves the
\* scope elsewhere, a nested wrap_context, and attempts whose rules fail
\* inside a wrap_context
WrapAtoms == {
    ContextProbe(S_abs_a),
    Unit(V_x),
    PermitValues(<<V_x, V_y>>),
    Fail,
    Select(S_b, TRUE),
    WrapContext(F2, ContextProbe(S_abs_b)),
    Attempt(<<WrapContext(F2, Fail)>>),
    AttemptCatch(<<WrapContext(F2, Fail)>>, ContextProbe(S_abs_b))
}

RunWrapContext ==
    \E rules \in SeqsUpTo(WrapAtoms, MaxRules) :
        Evaluate(WrapContext(F1, Policies(rules)))

NextContext ==
    \/ RunWrapContext

SpecContext == InitContext /\ [][NextContext]_vars

(***************************************************************************)
(* Builders: contexts are created under Context(name="root") with select,  *)
(* items are appended to them, one of them is finalized, what it returned  *)
(* is completed while it is an Incomplete, and run once it is a rule.      *)
(***************************************************************************)
MaxBuilders == 4     \* builders created, the root included
MaxAppends == 1      \* items appended with append(item, *args)
MaxCompletes == 2    \* complete() calls after one finalize()

S_name_root == <<"r", "o", "o", "t">>
S_abs_c == <<SLASH>> \o S_c

\* Context(name="root")
RootContext == BaseContext(1, DefaultWrapper, <<>>, PyStr(S_name_root))

\* the builders of the tree under `self`, self included
RECURSIVE ContextsOf(_)
ContextsOf(self) ==
    {self} \cup UNION {ContextsOf(self.items[i]) :
                         i \in {j \in DOMAIN self.items : HasFinalize(self.items[j])}}

\* the tree after the builder object `ctx` was mutated into `new`
RECURSIVE Mutated(_, _, _)
Mutated(self, ctx, new) ==
    IF self.ctx = ctx THEN new
    ELSE [self EXCEPT !.items = [i \in DOMAIN self.items |->
                                    IF HasFinalize(self.items[i])
                                    THEN Mutated(self.items[i], ctx, new)
                                    ELSE self.items[i]]]

\* the items appended with append(item, *args) so far
Appended(root) ==
    {<<self.ctx, i>> : self \in ContextsOf(root), i \in 1..MaxBuilders + MaxAppends} \cap
    UNION {{<<self.ctx, i>> : i \in {j \in DOMAIN self.items : ~HasFinalize(self.items[j])}} :
             self \in ContextsOf(root)}

\* the n-th builder selects a key of its own
SelectorOf(ctx) ==
    CASE ctx = 2 -> S_abs_a
      [] ctx = 3 -> S_abs_b
      [] OTHER -> S_abs_c

BuilderValues == {V_x}

\* requests: /context and /errors are empty lists
BuilderObj(fields) ==
    PyDict([k \in DOMAIN fields \cup {S_context, S_errors} |->
               IF k \in DOMAIN fields THEN fields[k] ELSE PyList(<<>>)])

BuilderObjs == {
    BuilderObj(<<>>),
    BuilderObj([k \in {S_a} |-> V_x]),
    BuilderObj([k \in {S_b} |-> V_y]),
    BuilderObj([k \in {S_a, S_b} |-> IF k = S_a THEN V_x ELSE V_y]),
    BuilderObj([k \in {S_a, S_b} |-> IF k = S_a THEN V_y ELSE V_empty]),
    BuilderObj([k \in {S_a, S_b, S_c} |-> IF k = S_b THEN V_x ELSE V_y])
}

InitBuilders ==
    /\ partial = NewPartial
    /\ value = PyNone
    /\ rule = NoRule
    /\ results = List_unit(value, partial)
    /\ builders = RootContext
    /\ finalized = <<>>
    /\ evaluation = NotStarted
    /\ calls = 0 /\ NoRuns

\* sub = self.select(scope)
CtxSelect ==
    /\ finalized = <<>>
    /\ Cardinality(ContextsOf(builders)) < MaxBuilders
    /\ \E self \in ContextsOf(builders) :
          builders' = Mutated(builders, self.ctx,
                              Context_scope_subctx(self,
                                  Cardinality(ContextsOf(builders)) + 1,
                                  SelectorOf(Cardinality(ContextsOf(builders)) + 1)))
    /\ UNCHANGED <<partial, value, rule, results, finalized, evaluation, calls, defaults, requests>>

\* self.set_value(v) and self.set_value(other.value)
CtxSetValue ==
    /\ finalized = <<>>
    /\ Cardinality(Appended(builders)) < MaxAppends
    /\ \E self \in ContextsOf(builders) :
       \E arg \in BuilderValues \cup {BaseContext_value(c) : c \in ContextsOf(builders)} :
          builders' = Mutated(builders, self.ctx, Context_set_value(self, arg))
    /\ UNCHANGED <<partial, value, rule, results, finalized, evaluation, calls, defaults, requests>>

\* self.append(func, a.value, b.value)
CtxAppendFunc ==
    /\ finalized = <<>>
    /\ Cardinality(Appended(builders)) < MaxAppends
    /\ \E self \in ContextsOf(builders) :
       \E a \in ContextsOf(builders) :
       \E b \in ContextsOf(builders) :
          builders' = Mutated(builders, self.ctx,
                              BaseContext_append(self, FuncBA,
                                  <<BaseContext_value(a), BaseContext_value(b)>>))
    /\ UNCHANGED <<partial, value, rule, results, finalized, evaluation, calls, defaults, requests>>

\* what self.finalize() returned, nothing completed yet
Finalized(ctx, item) == [value |-> item, ctx |-> ctx, got |-> <<>>, item |-> item]

\* a finalize() that uses up the items of the builder
CtxFinalize_consuming ==
    /\ finalized = <<>>
    /\ \E self \in ContextsOf(builders) :
          /\ finalized' = Finalized(self.ctx, finalize(self))
          /\ builders' = Mutated(builders, self.ctx, [self EXCEPT !.items = <<>>])
    /\ UNCHANGED <<partial, value, rule, results, evaluation, calls, defaults, requests>>

\* self.finalize()
CtxFinalize ==
    /\ finalized = <<>>
    /\ \E self \in ContextsOf(builders) :
          finalized' = Finalized(self.ctx, finalize(self))
    /\ UNCHANGED <<partial, value, rule, results, builders, evaluation, calls, defaults, requests>>

\* the maps given to complete(): one ContextualValue of the tree, or all
\* that finalize() left missing, each with a value of its own; the maps of
\* successive calls are disjoint
TrueValue(ctx_value, n) == IF (ctx_value.ctx + n) % 2 = 0 THEN V_x ELSE V_y
TrueValueKeys ==
    {{BaseContext_value(c)} : c \in ContextsOf(builders)} \cup {finalized.item.missing}
TrueValues(keys, n) == [ctx_value \in keys |-> TrueValue(ctx_value, n)]
Supplied(n) ==
    \A i \in DOMAIN finalized.got :
        finalized.got[i] = TrueValues(DOMAIN finalized.got[i], n)
SuppliedKeys == UNION {DOMAIN finalized.got[i] : i \in DOMAIN finalized.got}

\* incomplete.complete(true_values)
CtxComplete ==
    /\ finalized # <<>>
    /\ IsIncomplete(finalized.value)
    /\ Len(finalized.got) < MaxCompletes
    /\ \E keys \in TrueValueKeys :
       \E n \in {0, 1} :
          /\ Supplied(n)
          /\ keys \cap SuppliedKeys = {}
          /\ finalized' = [finalized EXCEPT
                              !.value = Incomplete_complete(@, TrueValues(keys, n)),
                              !.got = Append(@, TrueValues(keys, n))]
    /\ UNCHANGED <<partial, value, rule, results, builders, evaluation, calls, defaults, requests>>

\* run_policy(completed, obj)
RunFinalized ==
    /\ finalized # <<>>
    /\ rule = NoRule
    /\ HasBind(finalized.value)
    /\ \E obj \in BuilderObjs :
          /\ partial' = Partial_from_obj(obj)
          /\ results' = run(finalized.value, value, Partial_from_obj(obj))
    /\ rule' = finalized.value
    /\ UNCHANGED <<value, builders, finalized, evaluation, calls, defaults, requests>>

\* BasePolicy.run with an Incomplete in place of the rule, whose outcomes
\* are taken to be none
BasePolicy_run_skips_incomplete(policy_rule, initial_partial) ==
    IF ~HasBind(policy_rule) THEN List_mzero
    ELSE run(policy_rule, PyNone, initial_partial)

\* BasePolicy.run: policy_rule = ctx.finalize(); policy_rule.run(partial).
\* Only a PolicyRule has `run`: the attribute lookup raises on an Incomplete
\* and on a python function
BasePolicy_run(policy_rule, initial_partial) ==
    IF ~HasBind(policy_rule) THEN Raised
    ELSE run(policy_rule, PyNone, initial_partial)

\* policy.run(obj), whatever finalize() returned
EvaluateFinalized ==
    /\ finalized # <<>>
    /\ rule = NoRule
    /\ \E obj \in BuilderObjs :
          /\ partial' = Partial_from_obj(obj)
          /\ results' = BasePolicy_run(finalized.value, Partial_from_obj(obj))
    /\ rule' = finalized.value
    /\ UNCHANGED <<value, builders, finalized, evaluation, calls, defaults, requests>>

NextEvaluate ==
    \/ CtxSelect
    \/ CtxSetValue
    \/ CtxFinalize
    \/ CtxComplete
    \/ EvaluateFinalized

SpecEvaluate == InitBuilders /\ [][NextEvaluate]_vars

NextBuilders ==
    \/ CtxSelect
    \/ CtxSetValue
    \/ CtxAppendFunc
    \/ CtxFinalize
    \/ CtxComplete
    \/ RunFinalized

SpecBuilders == InitBuilders /\ [][NextBuilders]_vars

(***************************************************************************)
(* Builders given as arguments: append(with_value, sub) applies a function *)
(* to the value of the rule that the builder `sub` finalizes to.           *)
(***************************************************************************)
\* def with_foo(foo_value): return regarding('/bar', set_value(foo_value))
WithTargets == {S_abs_b, S_abs_c}

\* self.append(with_foo, sub)
CtxAppendWith ==
    /\ finalized = <<>>
    /\ Cardinality(Appended(builders)) < MaxAppends
    /\ \E self \in ContextsOf(builders) :
       \E sub \in ContextsOf(builders) :
       \E target \in WithTargets :
          builders' = Mutated(builders, self.ctx,
                              BaseContext_append(self, LambdaRegardingSetValue(target),
                                                 <<sub>>))
    /\ UNCHANGED <<partial, value, rule, results, finalized, evaluation, calls, defaults, requests>>

NextArguments ==
    \/ CtxSelect
    \/ CtxSetValue
    \/ CtxAppendWith
    \/ CtxFinalize
    \/ RunFinalized

SpecArguments == InitBuilders /\ [][NextArguments]_vars

(***************************************************************************)
(* contexts/context.py, contexts/base.py: the methods of Context that      *)
(* build checks.  A method acts on the builder object `self` of the tree   *)
(* `root` (builders are named by their `ctx`); the builders it creates get *)
(* the identities from `n` on.  It returns the tree.                       *)
(***************************************************************************)
\* the builder object `ctx` of the tree
Ctx(root, ctx) == CHOOSE self \in ContextsOf(root) : self.ctx = ctx

\* self.append(item, *args)
Appending(root, self, item, args) ==
    Mutated(root, self, BaseContext_append(Ctx(root, self), item, args))

\* BaseContext.subctx / named_subctx: sub = self.__class__(wrapper, *ctx_args);
\* sub.ctx_name = name; self.append(sub)
BaseContext_named_subctx(root, self, n, name, wrapper, ctx_args) ==
    Appending(root, self, BaseContext(n, wrapper, ctx_args, name), <<>>)

\* the wrappers of the builders
SelectWrapper == [lam |-> "select_wrapper"]
AttemptWrapper == [lam |-> "attempt_wrapper"]
TraceWrapper == [lam |-> "trace_wrapper"]
ApplyWrapper(func) == [lam |-> "apply_wrapper", func |-> func]
ChildrenWrapper == [lam |-> "children_wrapper"]
WithPolicyRules(ref) == [lam |-> "with_policy_rules", ref |-> ref]

\* Context.select(scope) / scope_subctx(scope, name): the rules of the new
\* builder run regarding the true value of `scope`
Context_select(root, self, n, scope_arg, name) ==
    BaseContext_named_subctx(root, self, n, name, SelectWrapper, <<scope_arg>>)

\* BaseContext.trace(value)
BaseContext_trace(root, self, n, traced) ==
    BaseContext_named_subctx(root, self, n, PyNone, TraceWrapper, <<traced>>)

\* BaseContext.attempt_catch(): attempt_ctx is n, catch is n + 2
BaseContext_attempt_catch(root, self, n) ==
    BaseContext_trace(
        BaseContext_named_subctx(
            BaseContext_named_subctx(root, self, n, PyNone, AttemptWrapper, <<>>),
            n, n + 1, PyNone, DefaultWrapper, <<>>),
        n + 1, n + 2, ContextualValue(n))

\* last = self.items.pop()
Popped(root, self) ==
    Mutated(root, self, [Ctx(root, self) EXCEPT !.items = DropLast(@)])

\* BaseContext.or_catch(): the last item moves into an attempt whose catch
\* is the builder n + 2
BaseContext_or_catch(root, self, n) ==
    Appending(BaseContext_attempt_catch(Popped(root, self), self, n), n,
              Ctx(root, self).items[Len(Ctx(root, self).items)], <<>>)

\* BaseContext.apply(func, *args), func a lambda
S_apply_lambda == <<"a", "p", "p", "l", "y", "(", "<", "l", "a", "m", "b", "d", "a", ">", ")">>
BaseContext_apply(root, self, n, func, args) ==
    BaseContext_named_subctx(root, self, n, PyStr(S_apply_lambda), ApplyWrapper(func), args)

\* Context.children()
Context_children(root, self, n) ==
    BaseContext_named_subctx(root, self, n, PyNone, ChildrenWrapper, <<>>)

\* Context.last_error: the builder n + 3
Context_last_error(root, self, n) ==
    Context_select(
        BaseContext_apply(
            Context_children(Context_select(root, self, n, PyStr(S_abs_errors), PyNone),
                             n, n + 1),
            n + 1, n + 2, LastItem, <<ContextualValue(n + 1)>>),
        n + 2, n + 3, ContextualValue(n + 2), PyNone)

\* Context.add_error()
Context_add_error(root, self) == Appending(root, self, AddErrorF, <<PyDict(<<>>)>>)

\* or_error: ctx = subctx.apply(lambda t: t[name], catch_ctx.value);
\* ctx.last_error.select(name).set_value(ctx.value)
ErrorField(root, subctx, catch_ctx, n, name) ==
    Appending(Context_select(
                  Context_last_error(
                      BaseContext_apply(root, subctx, n, GetItem(name),
                                        <<ContextualValue(catch_ctx)>>),
                      n, n + 1),
                  n + 4, n + 5, PyStr(name), PyNone),
              n + 5, SetValueF, <<ContextualValue(n)>>)

\* or_error that records the scope and the context only
Context_or_error_without_value(root, self, n) ==
    ErrorField(
        ErrorField(
            Context_add_error(
                BaseContext_named_subctx(BaseContext_or_catch(root, self, n),
                                         n + 2, n + 3, PyNone, DefaultWrapper, <<>>),
                n + 3),
            n + 3, n + 2, n + 10, S_scope),
        n + 3, n + 2, n + 16, S_context)

\* Context.or_error()
Context_or_error(root, self, n) ==
    ErrorField(
        ErrorField(
            ErrorField(
                Context_add_error(
                    BaseContext_named_subctx(BaseContext_or_catch(root, self, n),
                                             n + 2, n + 3, PyNone, DefaultWrapper, <<>>),
                    n + 3),
                n + 3, n + 2, n + 4, S_value),
            n + 3, n + 2, n + 10, S_scope),
        n + 3, n + 2, n + 16, S_context)

\* Context.require(*args), forbid(*args), whitelist_values(values): a named
\* builder n with the check as its only item, then or_error()
S_require == <<"r", "e", "q", "u", "i", "r", "e">>
S_forbid == <<"f", "o", "r", "b", "i", "d">>
S_whitelist_values == <<"w", "h", "i", "t", "e", "l", "i", "s", "t", "_", "v", "a", "l", "u", "e", "s">>
Checked(root, self, n, name, item, arg) ==
    Context_or_error(
        Appending(BaseContext_named_subctx(root, self, n, PyStr(name), DefaultWrapper, <<>>),
                  n, item, <<arg>>),
        n, n + 1)

Context_require(root, self, n, required) ==
    Checked(root, self, n, S_require, RequireValueF, required)

Context_forbid(root, self, n, forbidden) ==
    Checked(root, self, n, S_forbid, ForbidValueF, forbidden)

Context_whitelist_values(root, self, n, permitted) ==
    Checked(root, self, n, S_whitelist_values, PermitValuesF, PyList(permitted))

\* Context.each(ref=ref_obj): subctx is n, its children() n + 1, and the
\* builder returned n + 2
S_each == <<"e", "a", "c", "h">>
Context_each(root, self, n, ref_obj) ==
    BaseContext_named_subctx(
        Context_children(
            BaseContext_named_subctx(root, self, n, PyNone, DefaultWrapper, <<>>),
            n, n + 1),
        n, n + 2, PyStr(S_each), WithPolicyRules(ref_obj),
        <<BaseContext(n + 1, ChildrenWrapper, <<>>, PyNone)>>)

(***************************************************************************)
(* Checks that record an error.  A policy is built with the methods above: *)
(* select()s from the root builder, then one check on the builder selected *)
(* last; it is finalized and run in steps on a request.                    *)
(***************************************************************************)
S_sender == <<"s", "e", "n", "d", "e", "r">>
S_consumer_name == <<"c", "o", "n", "s", "u", "m", "e", "r", "_", "n", "a", "m", "e">>
S_dict == <<"d", "i", "c", "t">>
S_abs_sender == <<SLASH>> \o S_sender
S_abs_consumer_name == S_abs_sender \o <<SLASH>> \o S_consumer_name
S_abs_dict == <<SLASH>> \o S_dict

\* Context(): the root builder has a name or none
UnnamedContext == BaseContext(1, DefaultWrapper, <<>>, PyNone)

\* the select() calls: (scope, name).  ctx.consumer_name is
\* scope_subctx("/sender/consumer_name", "consumer_name")
RootSelects ==
    {<<S_abs_consumer_name, PyStr(S_consumer_name)>>, <<S_abs_sender, PyNone>>,
     <<S_abs_dict, PyNone>>}
NestedSelects == {<<S_consumer_name, PyStr(S_consumer_name)>>}

\* the lists given to whitelist_values, the ref objects given to each
Whitelists == {<<V_x>>, <<V_x, V_y>>}
V_1 == PyInt(1)
CheckRefObjs ==
    {PyDict([k \in keys |-> V_1]) : keys \in {{S_a}, {S_a, S_c}, {S_a, S_b, S_c}}}

\* the requests, seeded with errors: [] and context: []
SenderObj(sender) == BuilderObj([k \in {S_sender} |-> sender])
DictObj(keys) == BuilderObj([k \in {S_dict} |-> PyDict([j \in keys |-> V_x])])
DictKeys == {{S_a, S_b}, {S_a, S_b, S_c}}
PriorError == PyDict(<<>>)
CheckObjs == {
    BuilderObj(<<>>),
    PyDict([k \in {S_sender, S_context, S_errors} |->
               CASE k = S_sender -> PyDict(<<>>)
                 [] k = S_context -> PyList(<<>>)
                 [] k = S_errors -> PyList(<<PriorError>>)]),
    SenderObj(PyDict(<<>>)),
    SenderObj(PyDict([k \in {S_consumer_name} |-> V_x])),
    SenderObj(PyDict([k \in {S_consumer_name} |-> PyStr(<<"w">>)])),
    DictObj({S_a, S_b}),
    DictObj({S_a, S_b, S_c})
}

MaxSelects == 2     \* select() calls, one under the other

\* the builders created so far; without a check they are the root and the
\* selected builders, the last one created last
NumContexts == Cardinality(ContextsOf(builders))
HasCheck == NumContexts > MaxSelects + 1

InitChecks ==
    /\ partial = NewPartial
    /\ value = PyNone
    /\ rule = NoRule
    /\ results = List_unit(value, partial)
    /\ builders \in {UnnamedContext, RootContext}
    /\ finalized = <<>>
    /\ evaluation = NotStarted
    /\ calls = 0 /\ NoRuns

\* sub = self.select(scope), self the builder selected last
CheckSelect ==
    /\ finalized = <<>>
    /\ NumContexts <= MaxSelects
    /\ \E selected \in IF NumContexts = 1 THEN RootSelects
                       ELSE IF Ctx(builders, 2).ctx_args = <<PyStr(S_abs_sender)>>
                       THEN NestedSelects ELSE {} :
          builders' = Context_select(builders, NumContexts, NumContexts + 1,
                                     PyStr(selected[1]), selected[2])
    /\ UNCHANGED <<partial, value, rule, results, finalized, evaluation, calls, defaults, requests>>

\* self.require()
CheckRequire ==
    /\ finalized = <<>>
    /\ ~HasCheck
    /\ NumContexts > 1
    /\ builders' = Context_require(builders, NumContexts, NumContexts + 1,
                                   ContextualValue(NumContexts))
    /\ UNCHANGED <<partial, value, rule, results, finalized, evaluation, calls, defaults, requests>>

\* self.forbid()
CheckForbid ==
    /\ finalized = <<>>
    /\ ~HasCheck
    /\ NumContexts > 1
    /\ builders' = Context_forbid(builders, NumContexts, NumContexts + 1,
                                  ContextualValue(NumContexts))
    /\ UNCHANGED <<partial, value, rule, results, finalized, evaluation, calls, defaults, requests>>

\* self.whitelist_values(values)
CheckWhitelistValues ==
    /\ finalized = <<>>
    /\ ~HasCheck
    /\ NumContexts > 1
    /\ \E permitted \in Whitelists :
          builders' = Context_whitelist_values(builders, NumContexts,
                                               NumContexts + 1, permitted)
    /\ UNCHANGED <<partial, value, rule, results, finalized, evaluation, calls, defaults, requests>>

\* eachctx = self.each(ref=ref_obj); eachctx.require(eachctx.value)
CheckEachRequire ==
    /\ finalized = <<>>
    /\ ~HasCheck
    /\ NumContexts > 1
    /\ \E ref_obj \in CheckRefObjs :
          builders' = Context_require(
                          Context_each(builders, NumContexts, NumContexts + 1, ref_obj),
                          NumContexts + 3, NumContexts + 4,
                          ContextualValue(NumContexts + 3))
    /\ UNCHANGED <<partial, value, rule, results, finalized, evaluation, calls, defaults, requests>>

\* policy = ctx.finalize()
CheckFinalize ==
    /\ finalized = <<>>
    /\ HasCheck
    /\ finalized' = Finalized(1, finalize(builders))
    /\ UNCHANGED <<partial, value, rule, results, builders, evaluation, calls, defaults, requests>>

\* run_policy(policy, obj): the run starts
CheckRunPolicy ==
    /\ finalized # <<>>
    /\ HasBind(finalized.value)
    /\ evaluation = NotStarted
    /\ \E obj \in CheckObjs :
          /\ partial' = Partial_from_obj(obj)
          /\ evaluation' = Running(finalized.value, value, Partial_from_obj(obj), <<>>)
    /\ rule' = finalized.value
    /\ UNCHANGED <<value, results, builders, finalized, calls, defaults, requests>>

Stepping(next) ==
    /\ evaluation' = next
    /\ results' = IF IsOver(next) THEN next.result ELSE results

\* the run goes on by one step; its result is returned when it is over
CheckStep ==
    /\ evaluation # NotStarted
    /\ ~IsOver(evaluation)
    /\ Stepping(Step(evaluation))
    /\ UNCHANGED <<partial, value, rule, builders, finalized, calls, defaults, requests>>

NextChecks ==
    \/ CheckSelect
    \/ CheckRequire
    \/ CheckForbid
    \/ CheckWhitelistValues
    \/ CheckEachRequire
    \/ CheckFinalize
    \/ CheckRunPolicy
    \/ CheckStep

SpecChecks == InitChecks /\ [][NextChecks]_vars

(***************************************************************************)
(* Builders created without a wrapper: Context(), self.subctx().  Rules    *)
(* are appended as they are, and the finalized rule is run on requests     *)
(* with and without recorded errors.                                       *)
(***************************************************************************)
MaxItems == 2        \* rules appended with append(rule)

DefaultItems ==
    {Regarding(S_abs_a, <<SetValue(V_y)>>),
     Regarding(S_abs_b, <<PermitValues(<<V_x, V_y>>)>>),
     AddError(PriorError),
     Fail}

\* requests with /errors empty, non-empty and absent, and one that is not
\* a mapping
DefaultObjs ==
    {BuilderObj(<<>>),
     BuilderObj([k \in {S_a} |-> V_x]),
     PyDict([k \in {S_a, S_errors} |->
                IF k = S_a THEN V_x ELSE PyList(<<PriorError>>)]),
     EmptyObj,
     V_x}

RulesAppended(root) ==
    Cardinality({<<self.ctx, i>> : self \in ContextsOf(root), i \in 1..MaxBuilders + MaxItems} \cap
                UNION {{<<self.ctx, i>> : i \in {j \in DOMAIN self.items :
                                                   ~HasFinalize(self.items[j])}} :
                         self \in ContextsOf(root)})

InitDefault ==
    /\ partial = NewPartial
    /\ value = PyNone
    /\ rule = NoRule
    /\ results = List_unit(value, partial)
    /\ builders = UnnamedContext
    /\ finalized = <<>>
    /\ evaluation = NotStarted
    /\ calls = 0 /\ NoRuns

\* sub = self.subctx()
CtxSubctx ==
    /\ finalized = <<>>
    /\ NumContexts < MaxBuilders - 1
    /\ \E self \in ContextsOf(builders) :
          builders' = Mutated(builders, self.ctx,
                              BaseContext_subctx(self, NumContexts + 1, DefaultWrapper, <<>>))
    /\ UNCHANGED <<partial, value, rule, results, finalized, evaluation, calls, defaults, requests>>

\* self.append(rule)
CtxAppendRule ==
    /\ finalized = <<>>
    /\ RulesAppended(builders) < MaxItems
    /\ \E self \in ContextsOf(builders) :
       \E item \in DefaultItems :
          builders' = Mutated(builders, self.ctx, BaseContext_append(self, item, <<>>))
    /\ UNCHANGED <<partial, value, rule, results, finalized, evaluation, calls, defaults, requests>>

\* policy_rule.run(Partial.from_obj(obj))
RunRequest ==
    /\ finalized # <<>>
    /\ rule = NoRule
    /\ HasBind(finalized.value)
    /\ \E obj \in DefaultObjs :
          /\ partial' = Partial_from_obj(obj)
          /\ results' = run(finalized.value, value, Partial_from_obj(obj))
    /\ rule' = finalized.value
    /\ UNCHANGED <<value, builders, finalized, evaluation, calls, defaults, requests>>

NextDefault ==
    \/ CtxSubctx
    \/ CtxAppendRule
    \/ CtxFinalize
    \/ RunRequest

SpecDefault == InitDefault /\ [][NextDefault]_vars

\* finalize() once more, of the same builder, of an ancestor or of any other
\* builder, after the rule of the first finalize() was run
CtxFinalizeAgain ==
    /\ finalized # <<>>
    /\ rule # NoRule
    /\ \E self \in ContextsOf(builders) :
          finalized' = Finalized(self.ctx, finalize(self))
    /\ UNCHANGED <<partial, value, rule, results, builders, evaluation, calls, defaults, requests>>

NextRefinalize ==
    \/ CtxSubctx
    \/ CtxAppendRule
    \/ CtxFinalize
    \/ RunRequest
    \/ CtxFinalizeAgain

SpecRefinalize == InitDefault /\ [][NextRefinalize]_vars

(***************************************************************************)
(* BasePolicy.run(obj) with the class-level defaults: initial_partial puts *)
(* the default lists themselves into the request object under the keys it  *)
(* lacks, so every such request and every run reads the same two lists.    *)
(***************************************************************************)
MaxRuns == 2         \* run() calls of one policy

\* a reference to the list BasePolicy.defaults[k]
Shared(k) == [py |-> "shared", s |-> k]
IsShared(v) == v.py = "shared"

\* for k, v in defaults.items(): if k not in obj: obj[k] = v
Seeded(obj) ==
    PyDict([k \in DOMAIN obj.map \cup DOMAIN ClassDefaults |->
               IF k \in DOMAIN obj.map THEN obj.map[k] ELSE Shared(k)])

\* what a request object holds, with the lists of `lists` where it refers
\* to them
Deref(obj, lists) ==
    PyDict([k \in DOMAIN obj.map |->
               IF IsShared(obj.map[k]) THEN lists[obj.map[k].s] ELSE obj.map[k]])

\* initial_partial(obj), the object already seeded
initial_partial(obj, lists) == Partial_from_obj(Deref(obj, lists))

\* a run in which add_error appends to the list it read
defaults_after_run_appending(lists, m_results) ==
    IF m_results.exc \/ m_results.list = <<>> THEN lists
    ELSE [lists EXCEPT ![S_errors] =
              root_get_errors(Partial_root(m_results.list[1].partial)).value]

\* the default lists after a run: add_error builds errors + [error] and
\* sets it at /errors, a new list, and no rule writes to the list it read
defaults_after_run(lists, m_results) == lists

\* policy.run(obj)
PolicyRun(obj) ==
    /\ finalized # <<>>
    /\ HasBind(finalized.value)
    /\ Len(requests) < MaxRuns
    /\ requests' = Append(requests, Seeded(obj))
    /\ partial' = initial_partial(Seeded(obj), defaults)
    /\ results' = BasePolicy_run(finalized.value, initial_partial(Seeded(obj), defaults))
    /\ defaults' = defaults_after_run(defaults, results')
    /\ rule' = finalized.value
    /\ UNCHANGED <<value, builders, finalized, evaluation, calls>>

\* requests without errors and context, with both, and with errors of
\* their own
RunObjs ==
    {EmptyObj,
     PyDict([k \in {S_a} |-> V_x]),
     BuilderObj([k \in {S_a} |-> V_x]),
     PyDict([k \in {S_a, S_errors} |->
                IF k = S_a THEN V_x ELSE PyList(<<PriorError>>)])}

RunPolicy == \E obj \in RunObjs : PolicyRun(obj)

\* the request object of the last run passed to run() again
RunPolicyAgain ==
    /\ requests # <<>>
    /\ PolicyRun(requests[Len(requests)])

\* a policy with or without a name
InitPolicy ==
    /\ partial = NewPartial
    /\ value = PyNone
    /\ rule = NoRule
    /\ results = List_unit(value, partial)
    /\ builders \in {UnnamedContext, RootContext}
    /\ finalized = <<>>
    /\ evaluation = NotStarted
    /\ calls = 0 /\ NoRuns

NextRuns ==
    \/ CtxSubctx
    \/ CtxAppendRule
    \/ CtxFinalize
    \/ RunPolicy
    \/ RunPolicyAgain

SpecRuns == InitPolicy /\ [][NextRuns]_vars

\* sub = self.select(scope)
CtxSelectUnder ==
    /\ finalized = <<>>
    /\ NumContexts < MaxBuilders - 1
    /\ \E self \in ContextsOf(builders) :
          builders' = Mutated(builders, self.ctx,
                              Context_scope_subctx(self, NumContexts + 1,
                                                   SelectorOf(NumContexts + 1)))
    /\ UNCHANGED <<partial, value, rule, results, finalized, evaluation, calls, defaults, requests>>

\* self.set_value(self.value), self made by select()
CtxSetOwnValue ==
    /\ finalized = <<>>
    /\ RulesAppended(builders) < MaxItems
    /\ \E self \in ContextsOf(builders) :
          /\ self.ctx_args # <<>>
          /\ builders' = Mutated(builders, self.ctx,
                                 Context_set_value(self, BaseContext_value(self)))
    /\ UNCHANGED <<partial, value, rule, results, finalized, evaluation, calls, defaults, requests>>

\* rules, builders and deferred applications appended in any order
NextOrder ==
    \/ CtxSubctx
    \/ CtxSelectUnder
    \/ CtxAppendRule
    \/ CtxSetOwnValue
    \/ CtxFinalize
    \/ RunRequest

SpecOrder == InitDefault /\ [][NextOrder]_vars

(***************************************************************************)
(* check(func): the rule calls func() when it is run on a Partial.  The    *)
(* rules below are run in steps and `calls` counts the calls of func.      *)
(***************************************************************************)
\* check whose for_partial calls func() twice
check_calls_twice(ev) ==
    IF ev.mode = "run" /\ ev.rule_func.op = "check" THEN 2 ELSE 0

\* make_check.for_partial: m.unit( (func(), partial) ), one call of func
\* in the step that runs the rule
check_calls(ev) ==
    IF ev.mode = "run" /\ ev.rule_func.op = "check" THEN 1 ELSE 0

\* the rules before check(func): forks, a match, failure, nothing
CheckPrefixes ==
    {<<>>, <<Fail>>, <<Match(V_x)>>} \cup
    {<<PermitValues(vs)>> : vs \in SeqsUpTo(Values, MaxValues) \ {<<>>}}
\* the rules after it: a match or a failure that prunes branches, nothing
CheckSuffixes == {<<>>, <<Match(V_y)>>, <<Fail>>}
CheckResults == {V_x}

CheckChains ==
    {prefix \o <<Check(r)>> \o suffix :
        prefix \in CheckPrefixes, r \in CheckResults, suffix \in CheckSuffixes}

CheckedRules ==
    {Policies(chain) : chain \in CheckChains}
    \cup {Attempt(chain) : chain \in CheckChains}
    \cup {AttemptCatch(chain, Check(V_y)) : chain \in CheckChains}
    \cup {Bind(Head(prefix), Check(r)) :
            prefix \in CheckPrefixes \ {<<>>}, r \in CheckResults}
    \cup {Bind(Bind(Head(prefix), Check(r)), MatchF) :
            prefix \in CheckPrefixes \ {<<>>}, r \in CheckResults}

\* rule.run(partial): the run starts
StartChecked ==
    /\ rule = NoRule
    /\ evaluation = NotStarted
    /\ \E rule_func \in CheckedRules :
          /\ rule' = rule_func
          /\ evaluation' = Running(rule_func, value, partial, <<>>)
    /\ UNCHANGED <<partial, value, results, builders, finalized, calls, defaults, requests>>

\* the run goes on by one step
StepChecked ==
    /\ evaluation # NotStarted
    /\ ~IsOver(evaluation)
    /\ Stepping(Step(evaluation))
    /\ calls' = calls + check_calls(evaluation)
    /\ UNCHANGED <<partial, value, rule, builders, finalized, defaults, requests>>

NextCalls ==
    \/ StartChecked
    \/ StepChecked

SpecCalls == Init /\ [][NextCalls]_vars

(***************************************************************************)
(* The methods of Partial that write the node at the scope, called on      *)
(* trees that hold other nodes beside, above and below the scope.          *)
(***************************************************************************)
FrameObjs == {
    PyDict([k \in {S_a, S_b} |-> IF k = S_a THEN V_x ELSE V_y]),
    PyDict([k \in {S_a, S_b} |->
               IF k = S_a THEN PyDict([j \in {S_b, S_c} |-> IF j = S_b THEN V_x ELSE V_y])
               ELSE PyDict([j \in {S_a} |-> V_y])]),
    PyDict([k \in {S_a, S_b} |->
               IF k = S_a THEN V_empty ELSE PyDict([j \in {S_c} |-> V_x])])
}
FrameScopes == {S_root, S_abs_a, S_abs_b, S_abs_a_b, S_abs_a \o S_abs_c, S_abs_b \o S_abs_a}

FramePartials ==
    LET scoped == {Partial_select(Partial_from_obj(obj), sel, TRUE) :
                     obj \in FrameObjs, sel \in FrameScopes}
    IN {t.partial : t \in {u \in scoped : ~u.exc}}

InitFrame ==
    /\ partial \in FramePartials
    /\ value \in IncomingValues
    /\ rule = NoRule
    /\ results = List_unit(value, partial)
    /\ NoBuilders

\* the calls partial.set_node(node) and partial.match(value), and what they
\* returned
SetNode(node) == [op |-> "set_node", node |-> node]
CallMatch(compare_to) == [op |-> "call_match", value |-> compare_to]

FrameNodes == {UnknownPolicyNode, LeafPolicyNode(Value(V_x)),
               from_obj(PyDict([k \in {S_c} |-> V_y]))}

Returned(rule_func, tuple) ==
    /\ rule = NoRule
    /\ rule' = rule_func
    /\ results' = List_unit_tuple(tuple)
    /\ UNCHANGED <<partial, value, builders, finalized, evaluation, calls, defaults, requests>>

CallSetNode ==
    \E node \in FrameNodes : Returned(SetNode(node), Partial_set_node(partial, node))

MatchTuple(m) ==
    IF m.exc THEN TupleRaised ELSE Tuple(PyBool(m.matches), m.partial)

CallPartialMatch ==
    \E v \in Values : Returned(CallMatch(v), MatchTuple(Partial_match(partial, v)))

NextFrame ==
    \/ RunSetValue
    \/ RunDefineAs
    \/ RunMatch
    \/ CallSetNode
    \/ CallPartialMatch

SpecFrame == InitFrame /\ [][NextFrame]_vars

(***************************************************************************)
(* get_template() called on the Partial an evaluation starts from and on   *)
(* the Partials of its outcomes.                                           *)
(***************************************************************************)
GetTemplate == [op |-> "get_template"]
GetTemplateAgain == [op |-> "get_template_again"]

InitTemplate ==
    /\ partial \in InitialPartials \cup FramePartials
    /\ value \in IncomingValues
    /\ rule = NoRule
    /\ results = List_unit(value, partial)
    /\ NoBuilders

\* template = p.get_template(), p the initial Partial or the Partial of an
\* outcome; (template, p) is kept
CallGetTemplate ==
    /\ rule \notin {GetTemplate, GetTemplateAgain}
    /\ ~results.exc
    /\ \E i \in DOMAIN results.list :
          /\ partial' = results.list[i].partial
          /\ results' = List_unit(Partial_get_template(results.list[i].partial),
                                  results.list[i].partial)
    /\ rule' = GetTemplate
    /\ UNCHANGED <<value, builders, finalized, evaluation, calls, defaults, requests>>

\* p.get_template() once more on the same Partial
CallGetTemplateAgain ==
    /\ rule = GetTemplate
    /\ results' = List_unit(Partial_get_template(results.list[1].partial),
                            results.list[1].partial)
    /\ rule' = GetTemplateAgain
    /\ UNCHANGED <<partial, value, builders, finalized, evaluation, calls, defaults, requests>>

NextTemplate ==
    \/ RunSetValue
    \/ RunDefineAs
    \/ RunPermitValues
    \/ CallGetTemplate
    \/ CallGetTemplateAgain

SpecTemplate == InitTemplate /\ [][NextTemplate]_vars

(***************************************************************************)
(* Properties                                                              *)
(***************************************************************************)
ScopedNode(p) == NodeAt(p.root, p.path)
ScopedIsUnknown(p) == PathExists(p.root, p.path) /\ ScopedNode(p) = UnknownPolicyNode

\* C1: permit_values([v1..vn]) run on a Partial whose scoped node is Unknown
\* yields exactly n outcomes; the i-th outcome carries vi and a Partial with
\* the input's scope whose scoped node is a Leaf holding vi, and which is
\* the input Partial everywhere else.
C1_PermitValuesForksInOrder ==
    (rule.op = "permit_values" /\ ScopedIsUnknown(partial)) =>
        /\ ~results.exc
        /\ Len(results.list) = Len(rule.values)
        /\ \A i \in 1..Len(results.list) :
            /\ results.list[i].value = rule.values[i]
            /\ results.list[i].partial.path = partial.path
            /\ ScopedNode(results.list[i].partial) = LeafPolicyNode(Value(rule.values[i]))
            /\ ReplaceAt(results.list[i].partial.root, partial.path, UnknownPolicyNode)
                  = partial.root

C1_Witness ==
    /\ rule.op = "permit_values"
    /\ ScopedIsUnknown(partial)
    /\ Len(rule.values) = 2
    /\ rule.values[1] # rule.values[2]
    /\ Len(results.list) = 2
    /\ partial.path # <<>>

\* The absolute path a selector of the evaluated policies names from a scope
TargetPath(scope_path, selector) ==
    CASE selector = S_empty -> scope_path
      [] selector = S_a -> scope_path \o <<S_a>>
      [] selector = S_b -> scope_path \o <<S_b>>
      [] selector = S_abs_a -> <<S_a>>
      [] selector = S_abs_b -> <<S_b>>
      [] selector = S_abs_a_b -> <<S_a, S_b>>
      [] selector = S_up -> DropLast(scope_path)

\* no prior value at `path`: the node there is Unknown, or the path ends
\* below an Unknown node or at a key its Dict does not hold yet
RECURSIVE Vacant(_, _)
Vacant(node, path) ==
    \/ node.kind = "Unknown"
    \/ /\ path # <<>>
       /\ node.kind = "Dict"
       /\ Head(path) \in DOMAIN node.nodes => Vacant(node.nodes[Head(path)], Tail(path))

HoldsAt(root, path, v) ==
    PathExists(root, path) /\ NodeAt(root, path) = from_obj(v)

PolicyPair(p, first, second) ==
    Policies(<<Regarding(p, <<first>>), Regarding(p, <<second>>)>>)

SingleOutcomeHolding(path, v) ==
    /\ ~results.exc
    /\ Len(results.list) = 1
    /\ HoldsAt(results.list[1].partial.root, path, v)
    /\ results.list[1].partial.path = partial.path

\* C2: for a node with no prior value at p and distinct v, v2,
\* policies(regarding(p, match(v)), regarding(p, permit_values([v, v2])))
\* yields exactly one outcome, with v at p; the opposite order yields the
\* same single outcome; and so does set_value(v) as the first step.
C2_MatchAndPermitValuesCommute ==
    \A p \in PolicySelectors, v \in Values, v2 \in Values :
        (v # v2 /\ Vacant(partial.root, TargetPath(partial.path, p))) =>
            /\ rule = PolicyPair(p, Match(v), PermitValues(<<v, v2>>)) =>
                  SingleOutcomeHolding(TargetPath(partial.path, p), v)
            /\ rule = PolicyPair(p, PermitValues(<<v, v2>>), Match(v)) =>
                  /\ SingleOutcomeHolding(TargetPath(partial.path, p), v)
                  /\ results = run(PolicyPair(p, Match(v), PermitValues(<<v, v2>>)),
                                   value, partial)
            /\ rule = PolicyPair(p, SetValue(v), PermitValues(<<v, v2>>)) =>
                  /\ SingleOutcomeHolding(TargetPath(partial.path, p), v)
                  /\ results = run(PolicyPair(p, Match(v), PermitValues(<<v, v2>>)),
                                   value, partial)

C2_Witness ==
    /\ rule = PolicyPair(S_b, PermitValues(<<V_empty, V_y>>), Match(V_empty))
    /\ partial.path = <<S_a>>
    /\ Vacant(partial.root, <<S_a, S_b>>)
    /\ Len(results.list) = 1
    /\ HoldsAt(results.list[1].partial.root, <<S_a, S_b>>, V_empty)

\* the rules of an attempt, chained by collect on the incoming value, yield
\* zero outcomes
ChainYieldsZero == collect(rule.rules, value, partial) = List_mzero

\* C3: attempt(r1..rn) without catch, when the chained rules yield zero
\* outcomes, yields exactly one outcome, the original (value, partial), also
\* when an earlier rule changed the tree or the scope; and attempt without
\* catch never yields zero outcomes.
C3_AttemptFallsBackToOriginal ==
    (rule.op = "attempt" /\ ~rule.has_catch) =>
        /\ ChainYieldsZero => results = List_unit(value, partial)
        /\ results # List_mzero

C3_Witness ==
    /\ rule = Attempt(<<SetValue(V_y), Select(S_b, TRUE), Fail>>)
       \/ rule = Attempt(<<SetValue(V_y), Fail>>)
    /\ value = V_x
    /\ ScopedNode(partial) # LeafPolicyNode(Value(V_y))
    /\ results = List_unit(V_x, partial)

\* C4: attempt(r1..rn, catch=r2), when the chained rules yield zero
\* outcomes, yields exactly the outcomes r2 yields when given the original
\* value and run on the original partial (none when r2 yields none).
C4_AttemptCatchRunsOnOriginal ==
    (rule.op = "attempt" /\ rule.has_catch /\ ChainYieldsZero) =>
        /\ results = run(rule.catch, value, partial)
        /\ rule.catch = SetValueF =>
              /\ Len(results.list) = 1
              /\ results.list[1].value = value
              /\ results.list[1].partial.path = partial.path
              /\ HoldsAt(results.list[1].partial.root, partial.path, value)
        /\ rule.catch = Fail => results = List_mzero

C4_Witness ==
    /\ rule = AttemptCatch(<<SetValue(V_y), Fail>>, SetValueF)
    /\ value = V_x
    /\ ScopedNode(partial) = UnknownPolicyNode
    /\ Len(results.list) = 1
    /\ ScopedNode(results.list[1].partial) = LeafPolicyNode(Value(V_x))

\* the number of outcomes in the first n of a sequence of results
RECURSIVE OutcomesBefore(_, _)
OutcomesBefore(parts, n) ==
    IF n = 0 THEN 0 ELSE OutcomesBefore(parts, n - 1) + Len(parts[n].list)

\* `outcomes` is parts[1].list ++ .. ++ parts[k].list
IsConcatenation(outcomes, parts) ==
    /\ Len(outcomes) = OutcomesBefore(parts, Len(parts))
    /\ \A i \in 1..Len(parts) : \A j \in 1..Len(parts[i].list) :
           outcomes[OutcomesBefore(parts, i - 1) + j] = parts[i].list[j]

\* f(vi).run(pi) for every outcome (vi, pi) of the left rule, in its order
BoundRuns(m, right) ==
    [i \in 1..Len(m.list) |-> run(right, m.list[i].value, m.list[i].partial)]

NoneRaised(parts) == \A i \in 1..Len(parts) : ~parts[i].exc

\* C5: if rule yields (v1,p1)..(vk,pk) in that order, bind(rule, f) yields
\* f(v1).run(p1) ++ .. ++ f(vk).run(pk) in that order: nothing is dropped,
\* duplicated or reordered.
C5_BindConcatenatesInOrder ==
    (/\ rule.op = "bind"
     /\ ~run(rule.left, value, partial).exc
     /\ NoneRaised(BoundRuns(run(rule.left, value, partial), rule.right))) =>
        /\ ~results.exc
        /\ IsConcatenation(results.list,
                           BoundRuns(run(rule.left, value, partial), rule.right))

C5_Witness ==
    /\ rule = Bind(Regarding(S_a, <<PermitValues(<<V_empty, V_x>>)>>),
                   Regarding(S_b, <<PermitValues(<<V_x, V_y>>)>>))
    /\ Len(results.list) = 4
    /\ HoldsAt(results.list[2].partial.root, partial.path \o <<S_a>>, V_empty)
    /\ HoldsAt(results.list[2].partial.root, partial.path \o <<S_b>>, V_y)
    /\ HoldsAt(results.list[3].partial.root, partial.path \o <<S_a>>, V_x)
    /\ HoldsAt(results.list[3].partial.root, partial.path \o <<S_b>>, V_x)

\* the position of the first fail() among the rules (0 when there is none)
FirstFail(rule_funcs) ==
    IF \E i \in 1..Len(rule_funcs) : rule_funcs[i] = Fail
    THEN CHOOSE i \in 1..Len(rule_funcs) :
            rule_funcs[i] = Fail /\ \A j \in 1..(i - 1) : rule_funcs[j] # Fail
    ELSE 0

RulesBefore(rule_funcs, k) == SubSeq(rule_funcs, 1, k - 1)

\* the rules before position k of the evaluated sequence run without raising
PrefixRuns(k) ==
    IF rule.op = "policies"
    THEN ~run(Policies(RulesBefore(rule.rule_funcs, k)), value, partial).exc
    ELSE /\ ~Partial_select(partial, rule.selector, TRUE).exc
         /\ k > 1 => ~run(Regarding(rule.selector, RulesBefore(rule.rule_funcs, k)),
                          value, partial).exc

\* C6: fail() yields zero outcomes on every Partial, and a policies(..) or
\* regarding(sel, ..) sequence that contains fail() yields zero outcomes
\* however many branches the rules before it forked into (the empty list,
\* unless a rule before the fail raised).
C6_FailIsAbsorbing ==
    /\ rule = Fail => results = List_mzero
    /\ (rule.op \in {"policies", "regarding"} /\ FirstFail(rule.rule_funcs) > 0) =>
          /\ results.list = <<>>
          /\ PrefixRuns(FirstFail(rule.rule_funcs)) => results = List_mzero

C6_Witness ==
    /\ rule = Regarding(S_b, <<PermitValues(<<V_x, V_y>>), Fail>>)
    /\ partial.path = <<S_a>>
    /\ Len(run(Regarding(S_b, <<PermitValues(<<V_x, V_y>>)>>), value, partial).list) = 2
    /\ results = List_mzero

\* the scope string of a path: "/" for the root, "/a/b" for <<a, b>>
RECURSIVE PathString(_)
PathString(path) ==
    IF path = <<>> THEN <<>> ELSE <<SLASH>> \o Head(path) \o PathString(Tail(path))

ScopeString(path) == IF path = <<>> THEN <<SLASH>> ELSE PathString(path)

LastRule == rule.rule_funcs[Len(rule.rule_funcs)]
EarlierRules == SubSeq(rule.rule_funcs, 1, Len(rule.rule_funcs) - 1)

\* the last rule run at scope `path` on the tree of every outcome of the
\* rules before it
LastRuleRuns(m, path) ==
    [i \in 1..Len(m.list) |-> run(LastRule, PyNone, Partial(m.list[i].partial.root, path))]

ScopeSurvives(m, path) ==
    \A i \in 1..Len(m.list) : PathExists(m.list[i].partial.root, path)

\* C7: in policies(r1..rn) entered at scope s every rule starts at scope s
\* on every branch the earlier rules produced, also when an earlier rule
\* left the scope elsewhere, and it sees the tree as the earlier rules on
\* its branch left it.
C7_PoliciesResetScope ==
    (rule.op = "policies" /\ rule.rule_funcs # <<>> /\ ~results.exc) =>
        /\ LastRule = Scope =>
              \A i \in 1..Len(results.list) :
                  results.list[i].value = PyStr(ScopeString(partial.path))
        /\ \A p \in PolicySelectors, v \in Values :
              (/\ Len(rule.rule_funcs) >= 2
               /\ rule.rule_funcs[Len(rule.rule_funcs) - 1] = Regarding(p, <<SetValue(v)>>)
               /\ LastRule = Regarding(p, <<>>)) =>
                  \A i \in 1..Len(results.list) : results.list[i].value = v
        /\ (/\ ~run(Policies(EarlierRules), value, partial).exc
            /\ ScopeSurvives(run(Policies(EarlierRules), value, partial), partial.path)) =>
              IsConcatenation(results.list,
                  LastRuleRuns(run(Policies(EarlierRules), value, partial), partial.path))

C7_Witness ==
    /\ rule = Policies(<<Select(S_b, TRUE), Scope>>)
    /\ partial.path = <<S_a>>
    /\ Len(results.list) = 1
    /\ results.list[1].value = PyStr(<<SLASH>> \o S_a)
    /\ results.list[1].partial.path = <<S_a>>
    /\ run(Select(S_b, TRUE), value, partial).list[1].partial.path = <<S_a, S_b>>

\* the path at which the scope probe of the last rule function runs: the
\* selectors of the nested regardings resolved one after the other
RECURSIVE ProbePath(_, _)
ProbePath(rule_func, scope_path) ==
    IF rule_func = ScopeProbe THEN [path |-> scope_path, probes |-> TRUE]
    ELSE IF rule_func.op = "regarding" /\ rule_func.rule_funcs # <<>>
    THEN ProbePath(rule_func.rule_funcs[Len(rule_func.rule_funcs)],
                   TargetPath(scope_path, rule_func.selector))
    ELSE [path |-> scope_path, probes |-> FALSE]

\* every outcome holds, at the path the probe ran at, that path's scope string
ProbeRecorded(path) ==
    \A i \in 1..Len(results.list) :
        HoldsAt(results.list[i].partial.root, path, PyStr(ScopeString(path)))

\* C8: in regarding(sel, f1..fn) entered at scope s every fi runs with the
\* scope set to sel resolved against s, also after a rule function that
\* left the scope elsewhere, and every outcome of regarding has scope s
\* again; nested regardings resolve their relative selectors against the
\* scope of the enclosing one.
C8_RegardingScopes ==
    (rule.op = "regarding" /\ rule.rule_funcs # <<>> /\ ~results.exc) =>
        /\ \A i \in 1..Len(results.list) : results.list[i].partial.path = partial.path
        /\ ProbePath(rule, partial.path).probes =>
              ProbeRecorded(ProbePath(rule, partial.path).path)

C8_Witness ==
    /\ rule = Regarding(S_abs_a, <<Select(S_b, TRUE),
                                   Regarding(S_b, <<Regarding(S_a, <<ScopeProbe>>)>>)>>)
    /\ partial.path = <<>>
    /\ Len(results.list) = 1
    /\ results.list[1].partial.path = <<>>
    /\ HoldsAt(results.list[1].partial.root, <<S_a, S_b, S_a>>,
               PyStr(<<SLASH>> \o S_a \o <<SLASH>> \o S_b \o <<SLASH>> \o S_a))

\* a path that runs into a Leaf before its end cannot be selected
RECURSIVE Blocked(_, _)
Blocked(node, path) ==
    /\ path # <<>>
    /\ \/ node.kind = "Leaf"
       \/ /\ node.kind = "Dict"
          /\ Head(path) \in DOMAIN node.nodes
          /\ Blocked(node.nodes[Head(path)], Tail(path))

\* the tree with placeholders along `path`: an Unknown node on the way
\* becomes a Dict holding the next step, a Dict gains the missing step, and
\* the end of a new path is Unknown
RECURSIVE Materialized(_, _)
Materialized(node, path) ==
    IF path = <<>> THEN node
    ELSE IF node.kind = "Dict"
    THEN DictPolicyNode(
            [k \in DOMAIN node.nodes \cup {Head(path)} |->
                IF k # Head(path) THEN node.nodes[k]
                ELSE IF k \in DOMAIN node.nodes
                THEN Materialized(node.nodes[k], Tail(path))
                ELSE Materialized(UnknownPolicyNode, Tail(path))])
    ELSE DictPolicyNode([k \in {Head(path)} |->
                            Materialized(UnknownPolicyNode, Tail(path))])

\* the value stored at `path`: None where the tree holds no node
StoredValue(root, path) ==
    IF PathExists(root, path) THEN node_value(NodeAt(root, path)) ELSE PyNone

ReadTarget == TargetPath(partial.path, rule.selector)

\* C9 as amended: regarding(sel) with no functions yields exactly one
\* outcome whose value is the value stored at sel and whose scope is the
\* input's; its tree is the input's when sel names a node of the tree, and
\* otherwise the input's with the placeholder nodes select adds along sel;
\* a sel that runs through a Leaf raises instead.
C9_RegardingReadMaterializes ==
    (rule.op = "regarding" /\ rule.rule_funcs = <<>>) =>
        IF Blocked(partial.root, ReadTarget) THEN results = Raised
        ELSE /\ ~results.exc
             /\ Len(results.list) = 1
             /\ results.list[1].value = StoredValue(partial.root, ReadTarget)
             /\ results.list[1].partial.path = partial.path
             /\ results.list[1].partial.root = Materialized(partial.root, ReadTarget)
             /\ PathExists(partial.root, ReadTarget) =>
                   results.list[1].partial = partial

C9_Witness ==
    /\ rule = Regarding(S_b, <<>>)
    /\ partial.path = <<S_a>>
    /\ ~PathExists(partial.root, <<S_a, S_b>>)
    /\ Len(results.list) = 1
    /\ results.list[1].partial.path = <<S_a>>
    /\ PathExists(results.list[1].partial.root, <<S_a, S_b>>)
    /\ results.list[1].partial.root # partial.root

\* C9 as stated: regarding(sel) with no functions yields exactly one
\* outcome whose value is the value stored at sel and whose Partial is the
\* input Partial, same scope and same tree, for every sel.
C9_RegardingReadLeavesPartial ==
    (rule.op = "regarding" /\ rule.rule_funcs = <<>>) =>
        /\ Len(results.list) = 1
        /\ results.list[1].value = StoredValue(partial.root, ReadTarget)
        /\ results.list[1].partial = partial

IsPrefix(a, b) == Len(a) <= Len(b) /\ SubSeq(b, 1, Len(a)) = a
Disjoint(a, b) == ~IsPrefix(a, b) /\ ~IsPrefix(b, a)

HoldsString(root, path) ==
    /\ PathExists(root, path)
    /\ NodeAt(root, path).kind = "Leaf"
    /\ NodeAt(root, path).definition.value.py = "str"

\* given's rule functions that yield one outcome when handed a string node
Succeeds(rule_funcs) ==
    \A i \in 1..Len(rule_funcs) : rule_funcs[i] # Fail

\* C10: regarding(p, given(q, .., with_value(g))) runs g(value at q) at p
\* while the scope stays the caller's: with g = lambda foo: set_value(foo +
\* suffix) and p, q naming nodes outside each other, the one outcome holds
\* (value at q) + suffix at p, the node at q is as it was, and the scope is
\* the scope regarding was entered at.
C10_GivenReadsElsewhere ==
    \A p \in GivenScopes, q \in GivenSelectors, suffix \in {S_y, S_empty} :
        \A P \in {TargetPath(partial.path, p)} : \A Q \in {TargetPath(P, q)} :
            (/\ rule.op = "regarding"
             /\ rule.selector = p
             /\ Len(rule.rule_funcs) = 1
             /\ rule.rule_funcs[1].op = "given"
             /\ rule.rule_funcs[1].selector = q
             /\ Succeeds(rule.rule_funcs[1].rule_funcs)
             /\ rule.rule_funcs[1].rule_funcs[Len(rule.rule_funcs[1].rule_funcs)]
                    = WithValue(LambdaSetValueConcat(suffix))
             /\ HoldsString(partial.root, Q)
             /\ Disjoint(P, Q)
             /\ ~Blocked(partial.root, P)
             /\ IsPrefix(P, partial.path) => P = partial.path) =>
                /\ ~results.exc
                /\ Len(results.list) = 1
                /\ results.list[1].partial.path = partial.path
                /\ HoldsAt(results.list[1].partial.root, P,
                           PyStr(NodeAt(partial.root, Q).definition.value.s \o suffix))
                /\ PathExists(results.list[1].partial.root, Q)
                /\ NodeAt(results.list[1].partial.root, Q) = NodeAt(partial.root, Q)

C10_Witness ==
    /\ rule = Regarding(S_abs_b, <<Given(S_abs_a, <<WithValue(LambdaSetValueConcat(S_y))>>)>>)
    /\ partial.path = <<>>
    /\ HoldsAt(partial.root, <<S_a>>, V_x)
    /\ ~PathExists(partial.root, <<S_b>>)
    /\ Len(results.list) = 1
    /\ HoldsAt(results.list[1].partial.root, <<S_b>>, PyStr(S_x \o S_y))
    /\ HoldsAt(results.list[1].partial.root, <<S_a>>, V_x)

\* the python strings of the names of a Dict node
KeyStrings(node) == {PyStr(k) : k \in DOMAIN node.nodes}

\* v is a list that holds every name of the node exactly once
ListsKeysOnce(v, node) ==
    /\ v.py = "list"
    /\ Len(v.items) = Cardinality(DOMAIN node.nodes)
    /\ {v.items[i] : i \in 1..Len(v.items)} = KeyStrings(node)

ChildrenValueFor(v, node) ==
    IF node.kind = "Dict" THEN ListsKeysOnce(v, node) ELSE v = PyList(<<>>)

EachFuncSets(rule_func, arg, scope_path) ==
    CASE rule_func = ConcatY -> PyStr(arg.s \o S_y)
      [] rule_func = ConcatX -> PyStr(arg.s \o S_x)
      [] rule_func = ScopeProbe -> PyStr(Partial_scope(Partial(UnknownPolicyNode, scope_path)))
      [] rule_func = SetValueF -> arg

\* the value at a key after f1..fn ran there once each, in order: without
\* ref every fi is called with the value the key holds when it runs
RECURSIVE EachLeavesAt(_, _, _)
EachLeavesAt(rule_funcs, current, scope_path) ==
    IF rule_funcs = <<>> THEN current
    ELSE EachLeavesAt(Tail(rule_funcs),
                      EachFuncSets(Head(rule_funcs), current, scope_path), scope_path)

\* with ref every fi is called with ref[key]
RECURSIVE EachRefLeavesAt(_, _, _, _)
EachRefLeavesAt(rule_funcs, current, ref_value, scope_path) ==
    IF rule_funcs = <<>> THEN current
    ELSE EachRefLeavesAt(Tail(rule_funcs),
                         EachFuncSets(Head(rule_funcs), ref_value, scope_path),
                         ref_value, scope_path)

DeterministicFuncs == {ConcatY, ConcatX, ScopeProbe, SetValueF}

\* a Dict whose nodes are all leaves holding non-empty strings
IsDictOfStrings(node) ==
    /\ node.kind = "Dict"
    /\ \A k \in DOMAIN node.nodes :
          /\ node.nodes[k].kind = "Leaf"
          /\ node.nodes[k].definition.value.py = "str"
          /\ node.nodes[k].definition.value.s # <<>>

IsEach(r) == r.op = "bind" /\ r.left = Children /\ r.right.op = "each"

\* one outcome, scoped where the input was, that differs from the input
\* only below the scoped node, which is a Dict with the same keys
OneOutcomeAtDict ==
    /\ ~results.exc
    /\ Len(results.list) = 1
    /\ results.list[1].partial.path = partial.path
    /\ ScopedNode(results.list[1].partial).kind = "Dict"
    /\ DOMAIN ScopedNode(results.list[1].partial).nodes = DOMAIN ScopedNode(partial).nodes
    /\ ReplaceAt(results.list[1].partial.root, partial.path, ScopedNode(partial))
          = partial.root

ErrorsAt(root) ==
    IF PathExists(root, <<S_errors>>) THEN node_value(NodeAt(root, <<S_errors>>))
    ELSE PyNone

HasErrors(p) == ErrorsAt(p.root).py = "list" /\ ErrorsAt(p.root).items # <<>>
HasNoErrors(p) == ErrorsAt(p.root) = PyNone \/ ErrorsAt(p.root) = PyList(<<>>)

\* C13: unless_errors(r1..rn) on a Partial with a non-empty /errors list
\* yields the single outcome (None, the Partial as it is) and runs none of
\* the rules; on a Partial whose /errors is empty or absent it yields the
\* outcomes of policies(r1..rn).
C13_UnlessErrorsSkipsOrRuns ==
    rule.op = "unless_errors" =>
        /\ HasErrors(partial) => results = List_unit(PyNone, partial)
        /\ HasNoErrors(partial) => results = policies(rule.rules, partial)

\* the same, for Partials whose root is a mapping
C13_UnlessErrorsOnMappings ==
    (rule.op = "unless_errors" /\ partial.root.kind = "Dict") =>
        /\ HasErrors(partial) => results = List_unit(PyNone, partial)
        /\ HasNoErrors(partial) => results = policies(rule.rules, partial)

\* the list of frames at /context, or None when the tree has none
ContextAt(root) ==
    IF PathExists(root, <<S_context>>) THEN node_value(NodeAt(root, <<S_context>>))
    ELSE PyNone

\* the Partial with `frames` as its /context list
WithContext(p, frames) ==
    Partial(ReplaceAt(p.root, <<S_context>>, from_obj(PyList(frames))), p.path)

\* `outer` is what wrap_context makes of the results `inner` of the wrapped
\* rule: the same outcomes with the same values, the last frame popped
PoppedOutcomes(outer, inner, frames) ==
    /\ outer.exc = inner.exc
    /\ Len(outer.list) = Len(inner.list)
    /\ \A i \in 1..Len(outer.list) :
          /\ outer.list[i].value = inner.list[i].value
          /\ ContextAt(outer.list[i].partial.root) = PyList(frames)
          /\ outer.list[i].partial = WithContext(inner.list[i].partial, frames)

RecordedAt(root, path, frames) == HoldsAt(root, path, PyList(frames))

\* C14: wrap_context(frame, rule) runs rule with frame appended to the
\* frames /context held before (a rule that records /context records that
\* list, and a nested wrap_context appends its frame after it); every
\* outcome carries the value rule produced and the /context list as it was
\* before the push, also when rule went through the fallback of an attempt
\* whose rules failed inside a nested wrap_context.
C14_WrapContextPushesAndPops ==
    (rule.op = "wrap_context" /\ IsList(ContextAt(partial.root))) =>
        /\ PoppedOutcomes(results,
               run(rule.rule, value,
                   WithContext(partial, Append(ContextAt(partial.root).items, rule.context))),
               ContextAt(partial.root).items)
        /\ ~results.exc =>
              \A i \in 1..Len(results.list) :
                 /\ rule.rule.rule_funcs = <<ContextProbe(S_abs_a)>> =>
                       RecordedAt(results.list[i].partial.root, <<S_a>>,
                           Append(ContextAt(partial.root).items, rule.context))
                 /\ rule.rule.rule_funcs = <<WrapContext(F2, ContextProbe(S_abs_b))>> =>
                       RecordedAt(results.list[i].partial.root, <<S_b>>,
                           ContextAt(partial.root).items \o <<rule.context, F2>>)
                 /\ rule.rule.rule_funcs = <<AttemptCatch(<<WrapContext(F2, Fail)>>,
                                                         ContextProbe(S_abs_b))>> =>
                       RecordedAt(results.list[i].partial.root, <<S_b>>,
                           Append(ContextAt(partial.root).items, rule.context))

C14_Witness ==
    /\ rule.op = "wrap_context"
    /\ ContextAt(partial.root) = PyList(<<F0>>)
    /\ rule.rule.rule_funcs = <<Attempt(<<WrapContext(F2, Fail)>>), ContextProbe(S_abs_a)>>
    /\ ~results.exc
    /\ Len(results.list) = 1
    /\ RecordedAt(results.list[1].partial.root, <<S_a>>, <<F0, F1>>)
    /\ ContextAt(results.list[1].partial.root) = PyList(<<F0>>)

\* where a rule was run in one evaluation, its run in steps gives the same
\* result
StepsAgreeWithRun ==
    (rule # NoRule /\ evaluation = NotStarted) =>
        Stepped(Running(rule, value, partial, <<>>)) = results

\* the run of the policy is over
RunIsOver == evaluation # NotStarted /\ IsOver(evaluation)

\* result["errors"] of an outcome, obj["errors"] of the request
ErrorsOf(root) == node_value(root).map[S_errors].items

\* [frame.name for frame in error["context"]]
ContextNames(error) ==
    [k \in 1..Len(error.map[S_context].items) |-> error.map[S_context].items[k].name]

IsRecordedError(error, at_scope, failed_value, names) ==
    /\ error.py = "dict"
    /\ DOMAIN error.map = {S_scope, S_value, S_context}
    /\ error.map[S_scope] = PyStr(at_scope)
    /\ error.map[S_value] = failed_value
    /\ ContextNames(error) = names

\* the run gave one outcome, whose /errors is the one error
OneOutcomeWithError(at_scope, failed_value, names) ==
    /\ ~results.exc
    /\ Len(results.list) = 1
    /\ Len(ErrorsOf(results.list[1].partial.root)) = 1
    /\ IsRecordedError(ErrorsOf(results.list[1].partial.root)[1], at_scope,
                       failed_value, names)

\* the trees of builders a check is added to: the tree, its builder
\* selected last, the absolute scope of that builder as a string and as a
\* path, and the names of the named builders from the root to it
NamesOfRoot(root) == IF root.ctx_name = PyNone THEN <<>> ELSE <<root.ctx_name.s>>
SelectedTrees(root) == {
    <<Context_select(root, 1, 2, PyStr(S_abs_consumer_name), PyStr(S_consumer_name)),
      2, S_abs_consumer_name, <<S_sender, S_consumer_name>>,
      NamesOfRoot(root) \o <<S_consumer_name>>>>,
    <<Context_select(root, 1, 2, PyStr(S_abs_sender), PyNone),
      2, S_abs_sender, <<S_sender>>, NamesOfRoot(root)>>,
    <<Context_select(root, 1, 2, PyStr(S_abs_dict), PyNone),
      2, S_abs_dict, <<S_dict>>, NamesOfRoot(root)>>,
    <<Context_select(Context_select(root, 1, 2, PyStr(S_abs_sender), PyNone),
                     2, 3, PyStr(S_consumer_name), PyStr(S_consumer_name)),
      3, S_abs_consumer_name, <<S_sender, S_consumer_name>>,
      NamesOfRoot(root) \o <<S_consumer_name>>>>
}
AllSelectedTrees == SelectedTrees(UnnamedContext) \cup SelectedTrees(RootContext)

\* the value at `path` of the request, None when nothing is there
RequestValue(path) ==
    IF PathExists(partial.root, path) THEN node_value(NodeAt(partial.root, path))
    ELSE PyNone

\* the check is run (the request carries no error yet) and fails
RequireFails(path) ==
    ErrorsOf(partial.root) = <<>> /\ RequestValue(path) = PyNone
ForbidFails(path) ==
    ErrorsOf(partial.root) = <<>> /\ RequestValue(path) # PyNone
WhitelistFails(path, permitted) ==
    /\ ErrorsOf(partial.root) = <<>>
    /\ RequestValue(path) # PyNone
    /\ \A i \in 1..Len(permitted) : permitted[i] # RequestValue(path)

EachRequire(root, ref_obj) ==
    Context_require(
        Context_each(Context_select(root, 1, 2, PyStr(S_abs_dict), PyNone), 2, 3, ref_obj),
        5, 6, ContextualValue(5))

\* the keys of the request's dict the ref object has no value for
Unsupplied(keys, ref_obj) == keys \ DOMAIN ref_obj.map

\* the run gave one outcome, with one error, recorded at /dict/m
OneErrorAtKey(m) ==
    /\ ~results.exc
    /\ Len(results.list) = 1
    /\ Len(ErrorsOf(results.list[1].partial.root)) = 1
    /\ ErrorsOf(results.list[1].partial.root)[1].map[S_scope]
          = PyStr(S_abs_dict \o <<SLASH>> \o m)

NoErrorRecorded ==
    /\ ~results.exc
    /\ Len(results.list) = 1
    /\ ErrorsOf(results.list[1].partial.root) = <<>>

FinalizedContext == CHOOSE self \in ContextsOf(builders) : self.ctx = finalized.ctx

\* the values owned by the builders of the tree under `self`
OwnedUnder(self) == {BaseContext_value(c) : c \in ContextsOf(self)}

\* the ContextualValues the appended items of a builder wait for
DependenciesOf(self) ==
    UNION {IF IsIncomplete(self.items[i]) THEN self.items[i].missing ELSE {} :
             i \in DOMAIN self.items}

\* the values that the items under `self` wait for and that neither their
\* own builder nor a builder enclosing it, up to the finalized one, owns
RECURSIVE Unthreaded(_, _)
Unthreaded(self, enclosing) ==
    (DependenciesOf(self) \ (enclosing \cup {BaseContext_value(self)})) \cup
    UNION {IF HasFinalize(self.items[i])
           THEN Unthreaded(self.items[i], enclosing \cup {BaseContext_value(self)})
           ELSE {} : i \in DOMAIN self.items}

\* C17 (as stated): after B.finalize() the result is a rule, or an
\* Incomplete whose missing set holds only values owned by builders outside
\* the subtree of B.
C17_FinalizeLeavesOutsideDependencies ==
    finalized # <<>> =>
        \/ HasBind(finalized.item)
        \/ /\ IsIncomplete(finalized.item)
           /\ finalized.item.missing \cap OwnedUnder(FinalizedContext) = {}

\* C17 (amended): after B.finalize() the result is a rule when every value
\* an item under B waits for is owned by the item's builder or by a builder
\* that encloses it within the subtree of B; otherwise it is an Incomplete
\* whose missing set holds exactly the other values items under B wait for:
\* those of builders outside the subtree and those of builders of the
\* subtree that do not enclose the item.
C17_FinalizeThreadsEnclosingValues ==
    finalized # <<>> =>
        IF Unthreaded(FinalizedContext, {}) = {}
        THEN HasBind(finalized.item)
        ELSE /\ IsIncomplete(finalized.item)
             /\ finalized.item.missing = Unthreaded(FinalizedContext, {})

\* an item under the finalized builder waited for two values, one of an
\* enclosing builder, which was threaded, and one that stays missing
C17_Witness ==
    /\ finalized # <<>>
    /\ IsIncomplete(finalized.item)
    /\ \E self \in ContextsOf(FinalizedContext) :
          /\ DependenciesOf(self) \cap finalized.item.missing # {}
          /\ DependenciesOf(self) \ finalized.item.missing # {}

\* the item self.set_value(other.value) appends
SetValueItem(other) == wrap_ctx_values(AppendAction(SetValueF), <<BaseContext_value(other)>>)
\* the item self.append(func, a.value, b.value) appends
FuncItem(a, b) ==
    wrap_ctx_values(AppendAction(FuncBA), <<BaseContext_value(a), BaseContext_value(b)>>)

Holds(self, item) == \E i \in DOMAIN self.items : self.items[i] = item
\* the path a builder made by select("/key") addresses
SelectedPath(self) == <<Tail(self.ctx_args[1].s)>>
IsSelected(self) == self.ctx_args # <<>>

OneOutcome == ~results.exc /\ Len(results.list) = 1

\* every item appended under `self` is the set_value(b.value) of the builder
\* b that holds it
OnlyOwnValues(self) ==
    \A b \in ContextsOf(self) : \A i \in DOMAIN b.items :
        HasFinalize(b.items[i]) \/ (IsSelected(b) /\ b.items[i] = SetValueItem(b))

\* C18: a builder b made by select() whose item depends only on b.value
\* (b.set_value(b.value)) finalizes to a rule, not to an Incomplete, and so
\* does every builder that encloses it; the rule, run on a request, yields
\* one outcome in which the value at b's selector is the value the request
\* holds there.
C18_OwnValueFinalizesToRule ==
    (finalized # <<>> /\ OnlyOwnValues(FinalizedContext)) =>
        \A b \in ContextsOf(FinalizedContext) :
            IsSelected(b) /\ Holds(b, SetValueItem(b)) =>
                /\ HasBind(finalized.item)
                /\ rule # NoRule =>
                      /\ OneOutcome
                      /\ StoredValue(results.list[1].partial.root, SelectedPath(b)) =
                            StoredValue(partial.root, SelectedPath(b))

\* b.set_value(b.value) finalized through a builder that encloses b and run
\* on a request that holds a value at b's selector
C18_Witness ==
    /\ finalized # <<>>
    /\ rule # NoRule
    /\ \E b \in ContextsOf(FinalizedContext) :
          /\ IsSelected(b)
          /\ Holds(b, SetValueItem(b))
          /\ b.ctx # finalized.ctx
          /\ OneOutcome
          /\ StoredValue(partial.root, SelectedPath(b)) = V_y
          /\ StoredValue(results.list[1].partial.root, SelectedPath(b)) = V_y

\* the builders made with self.select()
ChildrenOf(self) == {self.items[i] : i \in {j \in DOMAIN self.items : HasFinalize(self.items[j])}}

\* C19: with b = a.select(..) and b.set_value(a.value), b.finalize() is an
\* Incomplete that misses a.value and not b.value; completed with a map that
\* gives a.value it is a rule that sets the value at b's selector to the
\* value given.  With c = b.select(..) and c.append(func, a.value, b.value),
\* c.finalize() misses a.value and b.value and b.finalize() misses a.value
\* only.  The item named is the only one appended in the tree.
C19_FinalizeMissesEnclosingValue ==
    (finalized # <<>> /\ Cardinality(Appended(builders)) = 1) =>
        \A a \in ContextsOf(builders) : \A b \in ChildrenOf(a) :
            /\ b.ctx = finalized.ctx /\ Holds(b, SetValueItem(a)) =>
                  /\ IsIncomplete(finalized.item)
                  /\ finalized.item.missing = {BaseContext_value(a)}
                  /\ (finalized.got # <<>> /\ BaseContext_value(a) \in DOMAIN finalized.got[1]) =>
                        /\ HasBind(finalized.value)
                        /\ rule # NoRule =>
                              /\ OneOutcome
                              /\ HoldsAt(results.list[1].partial.root, SelectedPath(b),
                                         finalized.got[1][BaseContext_value(a)])
            /\ \A c \in ChildrenOf(b) :
                  Holds(c, FuncItem(a, b)) =>
                      /\ c.ctx = finalized.ctx =>
                            /\ IsIncomplete(finalized.item)
                            /\ finalized.item.missing =
                                  {BaseContext_value(a), BaseContext_value(b)}
                      /\ b.ctx = finalized.ctx =>
                            /\ IsIncomplete(finalized.item)
                            /\ finalized.item.missing = {BaseContext_value(a)}

\* b.set_value(a.value), b finalized, completed with {a.value: x} and run on
\* the empty request: the outcome holds x at b's selector
C19_Witness ==
    /\ finalized # <<>>
    /\ rule # NoRule
    /\ partial = Partial_from_obj(BuilderObj(<<>>))
    /\ \E a \in ContextsOf(builders) : \E b \in ChildrenOf(a) :
          /\ IsSelected(a)
          /\ b.ctx = finalized.ctx
          /\ Holds(b, SetValueItem(a))
          /\ finalized.got = <<TrueValues({BaseContext_value(a)}, 0)>>
          /\ OneOutcome
          /\ HoldsAt(results.list[1].partial.root, SelectedPath(b), V_x)

\* c.append(func, a.value, b.value) with b finalized: only a.value is missing
C19_TwoValuesReached ==
    /\ finalized # <<>>
    /\ \E a \in ContextsOf(builders) : \E b \in ChildrenOf(a) : \E c \in ChildrenOf(b) :
          /\ Holds(c, FuncItem(a, b))
          /\ b.ctx = finalized.ctx
          /\ finalized.item.missing = {BaseContext_value(a)}

\* the keys of the maps given to complete() so far
KeysGiven(n) == UNION {DOMAIN finalized.got[i] : i \in 1..n}

\* C20: complete(map) on an Incomplete returns a finished rule exactly when
\* no missing value is left out of the map, and otherwise an Incomplete that
\* misses the values left out; completing in two steps with disjoint maps,
\* in either order, gives what completing once with their union gives.
C20_CompleteNarrowsMissing ==
    (finalized # <<>> /\ finalized.got # <<>>) =>
        /\ IsIncomplete(finalized.item)
        /\ IF finalized.item.missing \ KeysGiven(Len(finalized.got)) = {}
           THEN HasBind(finalized.value)
           ELSE /\ IsIncomplete(finalized.value)
                /\ finalized.value.missing =
                      finalized.item.missing \ KeysGiven(Len(finalized.got))
        /\ Len(finalized.got) = 2 =>
              /\ finalized.value =
                    Incomplete_complete(finalized.item, finalized.got[1] @@ finalized.got[2])
              /\ IsIncomplete(Incomplete_complete(finalized.item, finalized.got[2])) =>
                    finalized.value =
                        Incomplete_complete(
                            Incomplete_complete(finalized.item, finalized.got[2]),
                            finalized.got[1])

\* an Incomplete that missed two values was completed in two steps, one
\* value at a time, into a rule
C20_Witness ==
    /\ finalized # <<>>
    /\ Len(finalized.got) = 2
    /\ Cardinality(finalized.item.missing) = 2
    /\ finalized.got[1] # finalized.got[2]
    /\ DOMAIN finalized.got[1] \subseteq finalized.item.missing
    /\ DOMAIN finalized.got[2] \subseteq finalized.item.missing
    /\ HasBind(finalized.value)

\* the items of `self` that are builders holding no item
EmptyBuilders(self) ==
    {i \in DOMAIN self.items : HasFinalize(self.items[i]) /\ self.items[i].items = <<>>}

\* the item that self.append(with_foo, sub) appended
WithItem(sub, target) ==
    wrap_ctx_values(AppendAction(LambdaRegardingSetValue(target)), <<sub>>)

\* `self` holds the empty builder `sub` and with_foo applied to it, only
HoldsSubAndApplication(self, sub, target) ==
    self.items = <<sub, WithItem(sub, target)>> /\ sub.items = <<>>

\* the request holds a string where `sub` selects
RequestHolds(sub) ==
    /\ PathExists(partial.root, SelectedPath(sub))
    /\ NodeAt(partial.root, SelectedPath(sub)).kind = "Leaf"

AppliedToValueOf(sub, target) ==
    /\ OneOutcome
    /\ HoldsAt(results.list[1].partial.root, <<Tail(target)>>,
               node_value(NodeAt(partial.root, SelectedPath(sub))))

\* C21: a builder with no items contributes no rule to the finalized items
\* of its parent: get_finalized_items() returns one item for every item
\* that is not an empty builder, so exactly 1 for a parent that holds one
\* empty sub-builder and one appended application.  The empty sub-builder
\* still serves as an argument: with_foo appended with it is applied to the
\* value that the request holds where the sub-builder selects.
C21_EmptyBuilderIsDropped ==
    finalized # <<>> =>
        /\ Len(get_finalized_items(FinalizedContext)) =
               Len(FinalizedContext.items) - Cardinality(EmptyBuilders(FinalizedContext))
        /\ (/\ Len(FinalizedContext.items) = 2
            /\ Cardinality(EmptyBuilders(FinalizedContext)) = 1)
               => Len(get_finalized_items(FinalizedContext)) = 1
        /\ \A sub \in ChildrenOf(FinalizedContext) :
           \A target \in WithTargets :
              (/\ HoldsSubAndApplication(FinalizedContext, sub, target)
               /\ rule # NoRule
               /\ RequestHolds(sub))
                  => AppliedToValueOf(sub, target)

C21_Witness ==
    /\ finalized # <<>>
    /\ rule # NoRule
    /\ \E sub \in ChildrenOf(FinalizedContext) :
          /\ HoldsSubAndApplication(FinalizedContext, sub, S_abs_b)
          /\ sub.ctx_args = <<PyStr(S_abs_a)>>
          /\ RequestHolds(sub)
          /\ Len(get_finalized_items(FinalizedContext)) = 1
          /\ AppliedToValueOf(sub, S_abs_b)

\* `path` leads below a concrete value: a proper prefix of it ends at a Leaf
RECURSIVE BelowLeaf(_, _)
BelowLeaf(node, path) ==
    /\ path # <<>>
    /\ \/ node.kind = "Leaf"
       \/ /\ node.kind = "Dict"
          /\ Head(path) \in DOMAIN node.nodes
          /\ BelowLeaf(node.nodes[Head(path)], Tail(path))

\* the k-th rule of the chain is a select that some branch left by the
\* rules before it runs on a tree where its target lies below a Leaf
SelectsBelowLeafAt(rule_funcs, k, before) ==
    /\ rule_funcs[k].op = "select"
    /\ ~before.exc
    /\ \E i \in 1..Len(before.list) :
          BelowLeaf(before.list[i].partial.root,
                    TargetPath(partial.path, rule_funcs[k].selector))

SelectsBelowLeaf(rule_funcs) ==
    \E k \in 1..Len(rule_funcs) :
        SelectsBelowLeafAt(rule_funcs, k,
                           collect(SubSeq(rule_funcs, 1, k - 1), value, partial))

\* C22: a select whose (non-empty) path leads below a Leaf raises, and the
\* exception ends the whole evaluation: no list of outcomes is returned,
\* neither the empty one nor, around attempt with or without catch, the
\* fallback on the original (value, partial) or the outcomes of catch.
C22_SelectBelowLeafAborts ==
    /\ (rule.op = "select"
        /\ BelowLeaf(partial.root, TargetPath(partial.path, rule.selector)))
           => (results = Raised /\ results # List_mzero)
    /\ (rule.op = "attempt" /\ SelectsBelowLeaf(rule.rules))
           => /\ results = Raised
              /\ results # List_mzero
              /\ results # List_unit(value, partial)
              /\ rule.has_catch /\ ~run(rule.catch, value, partial).exc
                    => results # run(rule.catch, value, partial)

C22_Witness ==
    /\ rule = AttemptCatch(<<SetValueF, Select(S_b, TRUE)>>, SetValueF)
    /\ value = V_x
    /\ partial.path = <<S_a>>
    /\ SelectsBelowLeaf(rule.rules)
    /\ results = Raised

\* the finalized builder was evaluated on a request
Evaluated == finalized # <<>> /\ rule # NoRule

\* C23: when what finalize() returned (completed or not) is still an
\* Incomplete, evaluating it raises: no list of outcomes is returned, empty
\* or not, so no outcome carries a recorded error either.
C23_IncompleteEvaluationRaises ==
    (Evaluated /\ IsIncomplete(finalized.value)) =>
        /\ results = Raised
        /\ results # List_mzero
        /\ results.list = <<>>

C23_Witness ==
    /\ Evaluated
    /\ IsIncomplete(finalized.value)
    /\ finalized.value.missing # {}
    /\ finalized.got # <<>>
    /\ results = Raised

\* the value that the node at the scope of p holds; None is no value
ScopedValue(p) == node_value(ScopedNode(p))

DefinedAs(definition) ==
    /\ ~results.exc
    /\ Len(results.list) = 1
    /\ results.list[1].partial.path = partial.path
    /\ PathExists(results.list[1].partial.root, partial.path)
    /\ NodeAt(results.list[1].partial.root, partial.path) = LeafPolicyNode(definition)

\* C24: define_as(definition) where the scoped node holds a value v (any
\* value but None) yields one outcome with Leaf(narrowed definition) at the
\* scope when definition.match(v) succeeds and zero outcomes otherwise;
\* where the node holds no value it yields one outcome with Leaf(definition).
C24_DefineAsMatchesExistingValue ==
    rule.op = "define_as" =>
        IF ScopedValue(partial) # PyNone
        THEN IF Definition_match(rule.definition, ScopedValue(partial)).matches
             THEN DefinedAs(Definition_match(rule.definition, ScopedValue(partial)).definition)
             ELSE results = List_mzero
        ELSE DefinedAs(rule.definition)

\* what holds of define_as: the claim on the values that python counts as
\* true, and a value counted as false replaced like no value
C24_DefineAsOnTrueValues ==
    rule.op = "define_as" =>
        IF Truthy(ScopedValue(partial))
        THEN IF Definition_match(rule.definition, ScopedValue(partial)).matches
             THEN DefinedAs(Definition_match(rule.definition, ScopedValue(partial)).definition)
             ELSE results = List_mzero
        ELSE DefinedAs(rule.definition)

\* the paths of the nodes of a tree
RECURSIVE PathsOf(_)
PathsOf(node) ==
    {<<>>} \cup
    (IF node.kind = "Dict"
     THEN UNION {{<<k>> \o p : p \in PathsOf(node.nodes[k])} : k \in DOMAIN node.nodes}
     ELSE {})

\* root.select(path) returned (node, new_root) as the single outcome
SelectReturned(node, new_root) ==
    /\ ~results.exc
    /\ Len(results.list) = 1
    /\ results.list[1].value = node
    /\ results.list[1].partial.root = new_root

\* new_root is root with Unknown nodes added along `path` and nothing else
\* changed: every node of root is still there, equal unless it lies on the
\* path, and every node of new_root was in root or lies on the path
AddedAlong(root, new_root, path) ==
    /\ PathExists(new_root, path)
    /\ NodeAt(new_root, path) = UnknownPolicyNode
    /\ \A q \in PathsOf(root) :
          /\ q \in PathsOf(new_root)
          /\ ~IsPrefix(q, path) => NodeAt(new_root, q) = NodeAt(root, q)
    /\ \A q \in PathsOf(new_root) : q \in PathsOf(root) \/ IsPrefix(q, path)

SelectedOnce(root, path, new_root) ==
    /\ path = <<>> => SelectReturned(root, root)
    /\ PathExists(root, path) => SelectReturned(NodeAt(root, path), root)
    /\ ~PathExists(root, path) =>
          /\ SelectReturned(UnknownPolicyNode, new_root)
          /\ AddedAlong(root, new_root, path)
    /\ PolicyNode_select(new_root, path) =
          [exc |-> FALSE, node |-> results.list[1].value, root |-> new_root]

\* C25: root.select(path) for a path that does not lead below a Leaf: the
\* empty path returns (root, root); an existing path returns its node and a
\* root equal to the old one; a missing path returns an Unknown node and a
\* root in which only the nodes along the path were added, every other
\* node kept equal; selecting the same path in the new root returns the
\* same node and an equal root, and select(p) >> select(p) with the path
\* set yields what select(p) yields.
C25_SelectAddsOnlyThePath ==
    /\ (rule.op = "select"
        /\ ~BelowLeaf(partial.root, TargetPath(partial.path, rule.selector)))
           => /\ ~results.exc /\ Len(results.list) = 1
              /\ SelectedOnce(partial.root, TargetPath(partial.path, rule.selector),
                              results.list[1].partial.root)
    /\ (rule.op = "bind" /\ rule.left.op = "select")
           => results = run(rule.left, value, partial)

NestedObj == PyDict([k \in {S_a} |-> PyDict([j \in {S_b} |-> V_x])])

C25_Witness ==
    /\ rule.op = "select"
    /\ rule.selector = S_abs_b
    /\ partial.root = from_obj(NestedObj)
    /\ SelectReturned(UnknownPolicyNode,
                      DictPolicyNode([k \in {S_a, S_b} |->
                                         IF k = S_a THEN from_obj(NestedObj.map[S_a])
                                         ELSE UnknownPolicyNode]))

\* the nodes beside the scope: at the paths that are neither the scope, nor
\* above it, nor below it
KeepsNodesBeside(before, after) ==
    /\ after.path = before.path
    /\ \A q \in PathsOf(before.root) :
          Disjoint(q, before.path) =>
              /\ PathExists(after.root, q)
              /\ NodeAt(after.root, q) = NodeAt(before.root, q)
    /\ \A q \in PathsOf(after.root) :
          Disjoint(q, before.path) => q \in PathsOf(before.root)

WritesAtScope == {"set_value", "define_as", "match", "set_node", "call_match"}

\* C26: set_value, define_as, set_node and match at the scope p return a
\* Partial in which every node at a path that is neither p, nor above p,
\* nor below p equals the node that was there, none added and none removed;
\* the Partial they were called on keeps its root and path.
C26_WritesLeaveOtherNodes ==
    rule.op \in WritesAtScope =>
        /\ ~results.exc
        /\ \A i \in 1..Len(results.list) :
              KeepsNodesBeside(partial, results.list[i].partial)

C26_Witness ==
    /\ rule = SetNode(UnknownPolicyNode)
    /\ partial.path = <<S_a, S_b>>
    /\ PathExists(partial.root, <<S_a, S_c>>)
    /\ PathExists(partial.root, <<S_b, S_a>>)
    /\ Len(results.list) = 1
    /\ results.list[1].partial.root # partial.root
    /\ KeepsNodesBeside(partial, results.list[1].partial)

\* the single outcome is the node at `path` with the scope at `new_path`
SelectedAt(path, new_path) ==
    /\ ~results.exc
    /\ Len(results.list) = 1
    /\ PathExists(results.list[1].partial.root, path)
    /\ results.list[1].value = NodeAt(results.list[1].partial.root, path)
    /\ PathExists(partial.root, path) => results.list[1].value = NodeAt(partial.root, path)
    /\ results.list[1].partial.path = new_path

\* C27: Partial.select(selector, set_path) returns the node found at the
\* selector, taken from the root when it starts with "/" and from the
\* current scope otherwise; with set_path=False the returned Partial keeps
\* the path of the receiver, with set_path=True its path is the absolute
\* path that the selector resolves to.
C27_SelectPeeksOrMoves ==
    (rule.op = "select"
     /\ ~BelowLeaf(partial.root, TargetPath(partial.path, rule.selector)))
        => SelectedAt(TargetPath(partial.path, rule.selector),
                      IF rule.set_path THEN TargetPath(partial.path, rule.selector)
                      ELSE partial.path)

C27_Witness ==
    /\ rule = Select(S_b, FALSE)
    /\ partial.path = <<S_a>>
    /\ PathExists(partial.root, <<S_a, S_b>>)
    /\ SelectedAt(<<S_a, S_b>>, <<S_a>>)
    /\ results.list[1].value = LeafPolicyNode(Value(V_x))

\* does match(v) succeed on `node`: always on Unknown, as the definition
\* says on a Leaf, never on a Dict
MatchSucceeds(node, v) ==
    CASE node.kind = "Unknown" -> TRUE
      [] node.kind = "Leaf" -> Definition_match(node.definition, v).matches
      [] node.kind = "Dict" -> FALSE

\* the node that a successful match leaves at the scope
MatchedNode(node, v) ==
    IF node.kind = "Unknown" THEN LeafPolicyNode(Value(v))
    ELSE LeafPolicyNode(Definition_match(node.definition, v).definition)

\* one outcome carrying `carried`, its scope unchanged and the matched node
\* at the scope
MatchedAtScope(carried, node, v) ==
    /\ ~results.exc
    /\ Len(results.list) = 1
    /\ results.list[1].value = carried
    /\ results.list[1].partial.path = partial.path
    /\ PathExists(results.list[1].partial.root, partial.path)
    /\ NodeAt(results.list[1].partial.root, partial.path) = MatchedNode(node, v)

\* C28: match(v) on the scoped node succeeds always on Unknown, which
\* becomes a Leaf holding v, on a Leaf exactly when its definition matches
\* v, and never on a Dict.  When it fails the match rule yields zero
\* outcomes and Partial.match returns (False, the receiver), tree and scope
\* unchanged; when it succeeds the rule yields (v, the new Partial).
C28_MatchByNodeKind ==
    /\ rule.op = "match" =>
          IF MatchSucceeds(ScopedNode(partial), rule.value)
          THEN MatchedAtScope(rule.value, ScopedNode(partial), rule.value)
          ELSE results = List_mzero
    /\ rule.op = "call_match" =>
          IF MatchSucceeds(ScopedNode(partial), rule.value)
          THEN MatchedAtScope(PyBool(TRUE), ScopedNode(partial), rule.value)
          ELSE results = List_unit(PyBool(FALSE), partial)

C28_Witness ==
    /\ rule = CallMatch(V_x)
    /\ ScopedNode(partial).kind = "Dict"
    /\ DOMAIN ScopedNode(partial).nodes # {}
    /\ results = List_unit(PyBool(FALSE), partial)

C28_UnknownMatched ==
    /\ rule = Match(V_y)
    /\ ScopedNode(partial) = UnknownPolicyNode
    /\ MatchedAtScope(V_y, UnknownPolicyNode, V_y)
    /\ NodeAt(results.list[1].partial.root, partial.path) = LeafPolicyNode(Value(V_y))

\* the rules of a chain before its check, and the check
CheckAt(chain) == CHOOSE k \in 1..Len(chain) : chain[k].op = "check"
BeforeCheck(chain) == SubSeq(chain, 1, CheckAt(chain) - 1)

\* the branches that reach the check of the rule: the outcomes of what is
\* run before it
Reaching(rule_func) ==
    CASE rule_func.op = "policies" ->
            Len(policies(BeforeCheck(rule_func.rule_funcs), partial).list)
      [] rule_func.op = "attempt" ->
            Len(collect(BeforeCheck(rule_func.rules), value, partial).list)
      [] rule_func.op = "bind" /\ rule_func.right.op = "check" ->
            Len(run(rule_func.left, value, partial).list)
      [] rule_func.op = "bind" /\ rule_func.right.op # "check" ->
            Len(run(rule_func.left.left, value, partial).list)

\* attempt(..., catch=check(func)) runs the catch once when the rules yield
\* zero outcomes
CatchCalls(rule_func) ==
    IF /\ rule_func.op = "attempt"
       /\ rule_func.has_catch
       /\ collect(rule_func.rules, value, partial) = List_mzero
    THEN 1 ELSE 0

ExpectedCalls == Reaching(rule) + CatchCalls(rule)

\* check(func) bound to a rule: every outcome of the rule, with the result
\* of func as its value and its Partial as it was
CheckYields(left, result) ==
    results = List([i \in 1..Len(left.list) |->
                       Outcome(result, left.list[i].partial)])

\* C29: check(func) calls func once in every branch that reaches it and
\* yields (the result of func, the Partial unchanged): after a fork into k
\* branches func was called k times when the run is over, also when a
\* later match pruned some of the branches or attempt fell back on the
\* original state, and at no point of the run more often than that.
C29_CheckCallsOncePerBranch ==
    (rule # NoRule /\ evaluation # NotStarted) =>
        /\ calls <= ExpectedCalls
        /\ IsOver(evaluation) =>
              /\ calls = ExpectedCalls
              /\ (rule.op = "bind" /\ rule.right.op = "check")
                    => CheckYields(run(rule.left, value, partial), rule.right.value)

C29_Witness ==
    /\ rule = Attempt(<<PermitValues(<<V_x, V_y>>), Check(V_x), Fail>>)
    /\ evaluation # NotStarted
    /\ IsOver(evaluation)
    /\ Reaching(rule) = 2
    /\ calls = 2
    /\ results = List_unit(value, partial)

C29_PrunedBranchCounted ==
    /\ rule = Policies(<<PermitValues(<<V_x, V_y>>), Check(V_x), Match(V_y)>>)
    /\ evaluation # NotStarted
    /\ IsOver(evaluation)
    /\ calls = 2
    /\ Len(results.list) = 1

\* the node has no value: it is None, or a PolicyNode whose value is None
HasNoValue(node) ==
    \/ node = PyNone
    \/ IsPolicyNode(node) /\ node_value(node) = PyNone

\* the outcomes of the rule for `node` on the Partial `p`: one outcome
\* (None, p) when `passes`, zero outcomes otherwise
YieldsWhen(passes, yielded, p) ==
    yielded = IF passes THEN List_unit(PyNone, p) ELSE List_mzero

\* select(selector) >> rule: the rule is given what select returned
PresenceAfter(selected, requires) ==
    \/ selected.exc /\ results = Raised
    \/ /\ ~selected.exc
       /\ Len(selected.list) = 1
       /\ YieldsWhen(HasNoValue(selected.list[1].value) # requires,
                     results, selected.list[1].partial)

C30_MissingSelected ==
    /\ rule = Bind(Select(S_abs_b, FALSE), ForbidValueF)
    /\ partial.root = from_obj(EmptyObj)
    /\ Len(results.list) = 1

\* the builder that was finalized, and its finalized rule list
FinalizedBuilder == Ctx(builders, finalized.ctx)
FinalizedItems == get_finalized_items(FinalizedBuilder)

\* a builder without a wrapper was finalized and its rule was run
DefaultRun ==
    /\ finalized # <<>>
    /\ rule # NoRule
    /\ FinalizedBuilder.wrapper = DefaultWrapper
    /\ FinalizedBuilder.ctx_name = PyNone

\* /errors of the root at entry is a non-empty list
ErrorsAtEntry(p) ==
    /\ ~root_get_errors(Partial_root(p)).exc
    /\ Truthy(root_get_errors(Partial_root(p)).value)

C31_RanAllItems ==
    /\ DefaultRun
    /\ ~ErrorsAtEntry(partial)
    /\ Len(FinalizedItems) = 2
    /\ Len(results.list) = 2
    /\ results = policies(FinalizedItems, partial)

\* the template of a child node, down to the children of a child
ChildTemplateIs(node, template) ==
    CASE node.kind = "Unknown" -> template = PyDict(<<>>)
      [] node.kind = "Leaf" -> template = Definition_get_template(node.definition)
      [] node.kind = "Dict" ->
            /\ template.py = "dict"
            /\ DOMAIN template.map = DOMAIN node.nodes
            /\ \A k \in DOMAIN node.nodes :
                  /\ node.nodes[k].kind = "Unknown" => template.map[k] = PyDict(<<>>)
                  /\ node.nodes[k].kind = "Leaf" =>
                        template.map[k] = Definition_get_template(node.nodes[k].definition)

\* the template of a tree: a mapping of the templates of the children
TemplateIs(root, template) ==
    CASE root.kind = "Dict" ->
            /\ template.py = "dict"
            /\ DOMAIN template.map = DOMAIN root.nodes
            /\ \A k \in DOMAIN root.nodes : ChildTemplateIs(root.nodes[k], template.map[k])
      [] OTHER -> ChildTemplateIs(root, template)

TemplateCalled == rule \in {GetTemplate, GetTemplateAgain}

\* C32: get_template() on a tree whose only child is a concrete Leaf at /x
\* returns {x: the template of the definition of that Leaf}; in general a
\* Dict gives the mapping of its children's templates, a Leaf the template
\* of its definition and Unknown the empty object; a repeated call returns
\* the same template and the tree of the Partial is the one it was called
\* on.
C32_TemplateOfTree ==
    TemplateCalled =>
        /\ Len(results.list) = 1
        /\ results.list[1].partial = partial
        /\ TemplateIs(partial.root, results.list[1].value)
        /\ (partial.root.kind = "Dict" /\ DOMAIN partial.root.nodes = {S_a}
              /\ partial.root.nodes[S_a].kind = "Leaf") =>
              results.list[1].value =
                 PyDict([k \in {S_a} |->
                            Definition_get_template(partial.root.nodes[S_a].definition)])

C32_Witness ==
    /\ rule = GetTemplateAgain
    /\ partial.root = DictPolicyNode([k \in {S_a} |-> LeafPolicyNode(Value(V_x))])
    /\ results.list[1].value = PyDict([k \in {S_a} |-> Definition_get_template(Value(V_x))])

C32_UnknownChild ==
    /\ rule = GetTemplate
    /\ partial.root.kind = "Dict"
    /\ \E k \in DOMAIN partial.root.nodes :
          /\ partial.root.nodes[k].kind = "Unknown"
          /\ results.list[1].value.map[k] = PyDict(<<>>)

\* what attempt(rules) gives on one branch: the result of the chained rules,
\* or the branch as it was when they yield nothing
AttemptedBranch(rules, o) ==
    IF collect(rules, o.value, o.partial) = List_mzero THEN List(<<o>>)
    ELSE collect(rules, o.value, o.partial)

AttemptedBranches(rules, forks) ==
    List_concat([i \in DOMAIN forks.list |-> AttemptedBranch(rules, forks.list[i])])

\* permit_values([a, b]) and attempt(match(a), set_value(c)) with a # b
IsTestAttempt(fork, attempted) ==
    /\ fork.op = "permit_values"
    /\ Len(fork.values) = 2
    /\ fork.values[1] # fork.values[2]
    /\ Len(attempted.rules) = 2
    /\ attempted.rules[1] = Match(fork.values[1])
    /\ attempted.rules[2].op = "set_value"

\* two outcomes: the first holds c at `path`, the second keeps b
UpdatedThenKept(path, fork, attempted) ==
    /\ ~results.exc
    /\ Len(results.list) = 2
    /\ HoldsAt(results.list[1].partial.root, path, attempted.rules[2].value)
    /\ HoldsAt(results.list[2].partial.root, path, fork.values[2])

\* C33: attempt is applied to every branch on its own and replaces only a
\* branch on which its rules yield nothing: after a fork the outcomes are,
\* branch by branch and in order, the result of the chained rules where it
\* is not empty (no fallback outcome added) and the branch unchanged where
\* it is empty.  permit_values([a, b]) followed by
\* attempt(match(a), set_value(c)) on an Unknown node yields 2 outcomes, the
\* first holding c and the second keeping b.
C33_AttemptPerBranch ==
    /\ (rule.op = "bind" /\ rule.right.op = "attempt" /\ rule.left.op = "permit_values") =>
          results = AttemptedBranches(rule.right.rules, run(rule.left, value, partial))
    /\ (rule.op = "policies" /\ Len(rule.rule_funcs) = 2
          /\ rule.rule_funcs[2].op = "attempt"
          /\ IsTestAttempt(rule.rule_funcs[1], rule.rule_funcs[2])
          /\ ScopedIsUnknown(partial)) =>
          UpdatedThenKept(partial.path, rule.rule_funcs[1], rule.rule_funcs[2])
    /\ (rule.op = "regarding" /\ Len(rule.rule_funcs) = 2
          /\ rule.rule_funcs[2].op = "attempt"
          /\ IsTestAttempt(rule.rule_funcs[1], rule.rule_funcs[2])
          /\ partial.root.kind \in {"Unknown", "Dict"}
          /\ ~PathExists(partial.root, <<S_b>>)) =>
          UpdatedThenKept(<<S_b>>, rule.rule_funcs[1], rule.rule_funcs[2])

C33_Witness ==
    /\ rule = Regarding(S_abs_b, <<PermitValues(<<V_x, V_y>>),
                                   Attempt(<<Match(V_x), SetValue(V_empty)>>)>>)
    /\ ~PathExists(partial.root, <<S_b>>)
    /\ Len(results.list) = 2
    /\ HoldsAt(results.list[1].partial.root, <<S_b>>, V_empty)
    /\ HoldsAt(results.list[2].partial.root, <<S_b>>, V_y)

C33_BranchByBranch ==
    /\ rule = Bind(PermitValues(<<V_x, V_y>>), Attempt(<<Match(V_y)>>))
    /\ ScopedIsUnknown(partial)
    /\ Len(results.list) = 2
    /\ results = run(PermitValues(<<V_x, V_y>>), value, partial)

\* d holds an item that waits for the values of a and b, builders made by
\* select() that enclose d or are d, one of them above d
DependsOnAncestors(d, a, b) ==
    /\ IsSelected(a) /\ IsSelected(b) /\ IsSelected(d)
    /\ d \in ContextsOf(a)
    /\ d \in ContextsOf(b)
    /\ a # d \/ b # d
    /\ \/ a = b /\ Holds(d, SetValueItem(a))
       \/ Holds(d, FuncItem(a, b))

IsStr(v) == "py" \in DOMAIN v /\ v.py = "str"

\* what the item of d did with the values the request holds at the
\* selectors of a and b: set_value(a) stores the value of a at d,
\* func(a, b) stores b + a at d when both are strings
ItemReceived(d, a, b) ==
    /\ Holds(d, SetValueItem(a)) =>
          /\ OneOutcome
          /\ StoredValue(results.list[1].partial.root, SelectedPath(d)) =
                StoredValue(partial.root, SelectedPath(a))
    /\ (/\ Holds(d, FuncItem(a, b))
        /\ IsStr(StoredValue(partial.root, SelectedPath(a)))
        /\ IsStr(StoredValue(partial.root, SelectedPath(b)))) =>
          /\ OneOutcome
          /\ HoldsAt(results.list[1].partial.root, SelectedPath(d),
                     PyStr(StoredValue(partial.root, SelectedPath(b)).s \o
                           StoredValue(partial.root, SelectedPath(a)).s))

ResolvedAndPassed(d, a, b) ==
    /\ HasBind(finalized.item)
    /\ rule # NoRule => ItemReceived(d, a, b)

\* the values the request holds at the selectors of a and b are true in
\* python, or absent
TrueOrAbsent(a, b) ==
    \A c \in {a, b} :
        \/ StoredValue(partial.root, SelectedPath(c)) = PyNone
        \/ Truthy(StoredValue(partial.root, SelectedPath(c)))

\* C34: an item that depends on the value of a builder enclosing its own
\* builder, at any depth, is resolved when that builder or one above it is
\* finalized: the result is a rule, and the rule, run on a request, gives
\* the item the value the request holds at the selector of the enclosing
\* builder.
C34_AncestorValueIsPassed ==
    finalized # <<>> =>
        \A a \in ContextsOf(FinalizedContext) :
        \A b \in ContextsOf(FinalizedContext) :
        \A d \in ContextsOf(FinalizedContext) :
            DependsOnAncestors(d, a, b) => ResolvedAndPassed(d, a, b)

\* the same on requests whose values at the selectors are true in python
C34_AncestorValueIsPassedWhenTrue ==
    finalized # <<>> =>
        \A a \in ContextsOf(FinalizedContext) :
        \A b \in ContextsOf(FinalizedContext) :
        \A d \in ContextsOf(FinalizedContext) :
            (DependsOnAncestors(d, a, b) /\ (rule # NoRule => TrueOrAbsent(a, b)))
                => ResolvedAndPassed(d, a, b)

\* a grandchild's item received the value of its grandparent, finalized
\* from the root
C34_Skipping ==
    /\ finalized # <<>>
    /\ finalized.ctx = 1
    /\ rule # NoRule
    /\ \E a \in ContextsOf(builders) : \E m \in ChildrenOf(a) : \E d \in ChildrenOf(m) :
          /\ DependsOnAncestors(d, a, a)
          /\ StoredValue(partial.root, SelectedPath(a)) = V_x
          /\ OneOutcome
          /\ HoldsAt(results.list[1].partial.root, SelectedPath(d), V_x)

\* func(a, b) was given the node at /b in place of the empty string
C34_NodePassed ==
    /\ finalized # <<>>
    /\ rule # NoRule
    /\ \E a \in ContextsOf(builders) : \E d \in ChildrenOf(a) :
          /\ DependsOnAncestors(d, a, d)
          /\ StoredValue(partial.root, SelectedPath(a)) = V_y
          /\ StoredValue(partial.root, SelectedPath(d)) = V_empty
          /\ results = Raised

\* the items finalize() includes: all but the builders without items
IsIncluded(item) == ~(HasFinalize(item) /\ item.items = <<>>)
Included(self) == SelectSeq(self.items, IsIncluded)

\* the finalized form of an item, by kind: a rule stays, a builder becomes
\* the rule it finalizes to, a deferred application of the builder's own
\* value becomes a function of that value
IsFinalizedFormOf(item, finalized_item) ==
    CASE HasFinalize(item) -> finalized_item = finalize(item)
      [] IsIncomplete(item) ->
            /\ finalized_item.op = "lambda"
            /\ finalized_item.func.lam = "appended_func"
            /\ finalized_item.func.item = item
      [] OTHER -> finalized_item = item

InDeclarationOrder(self, rules) ==
    /\ Len(rules) = Len(Included(self))
    /\ \A k \in 1..Len(rules) : IsFinalizedFormOf(Included(self)[k], rules[k])

\* the rule list inside the rule a builder finalized to
RulesOf(self, finalized_rule) ==
    IF self.wrapper = DefaultWrapper THEN finalized_rule.rules
    ELSE finalized_rule.rule_funcs

OnlyRules(self) == \A k \in DOMAIN self.items : HasBind(self.items[k])

\* C35: finalize() keeps the order in which the items were appended: the
\* rule list of the finalized rule holds the finalized form of each included
\* item (rule, nested builder, deferred application) at the position of the
\* item, and the outcomes of the finalized rule are, in order, those of the
\* items run in declaration order.
C35_FinalizeKeepsDeclarationOrder ==
    (finalized # <<>> /\ HasBind(finalized.item)) =>
        /\ InDeclarationOrder(FinalizedBuilder, RulesOf(FinalizedBuilder, finalized.item))
        /\ (/\ rule # NoRule
            /\ FinalizedBuilder.wrapper = DefaultWrapper
            /\ OnlyRules(FinalizedBuilder)
            /\ ~root_get_errors(Partial_root(partial)).exc
            /\ ~ErrorsAtEntry(partial)) =>
              results = policies(FinalizedBuilder.items, partial)

\* a deferred application appended before a builder that holds a rule
C35_Witness ==
    /\ finalized # <<>>
    /\ HasBind(finalized.item)
    /\ Len(Included(FinalizedBuilder)) = 2
    /\ IsIncomplete(Included(FinalizedBuilder)[1])
    /\ HasFinalize(Included(FinalizedBuilder)[2])
    /\ finalized.item.rule_funcs[2] = finalize(FinalizedBuilder.items[2])

\* a rule appended after a deferred application
C35_RuleAfterDeferred ==
    /\ finalized # <<>>
    /\ rule # NoRule
    /\ Len(Included(FinalizedBuilder)) = 2
    /\ IsIncomplete(Included(FinalizedBuilder)[1])
    /\ HasBind(Included(FinalizedBuilder)[2])
    /\ OneOutcome

\* two rules that do not commute: the fork comes first, then the failure of
\* nothing; the outcomes keep the order of the fork
C35_OutcomesInOrder ==
    /\ finalized # <<>>
    /\ rule # NoRule
    /\ FinalizedBuilder.items = <<Regarding(S_abs_b, <<PermitValues(<<V_x, V_y>>)>>),
                                  Regarding(S_abs_a, <<SetValue(V_y)>>)>>
    /\ Len(results.list) = 2
    /\ HoldsAt(results.list[1].partial.root, <<S_b>>, V_x)
    /\ HoldsAt(results.list[2].partial.root, <<S_b>>, V_y)

\* the number of entries of /errors
ErrorCount(p) ==
    IF ErrorsAt(p.root) # PyNone /\ ErrorsAt(p.root).py = "list"
    THEN Len(ErrorsAt(p.root).items) ELSE 0

AtMostOneError ==
    \A i \in DOMAIN results.list : ErrorCount(results.list[i].partial) <= 1

\* unless_errors(r1..rn) was run on a mapping whose /errors is the empty list
CascadeStarted ==
    /\ rule.op = "unless_errors"
    /\ partial.root.kind = "Dict"
    /\ ErrorsAt(partial.root) = PyList(<<>>)

\* every check of the list is wrapped in an unless_errors of its own
EachCheckWrapped(rules) == \A k \in DOMAIN rules : rules[k] # RecordingCheck

\* C36 as stated: in unless_errors(r1..rn) started with empty /errors the
\* rules after the first one that recorded an error do not run, so every
\* outcome holds at most 1 error.
C36_StopsAfterFirstError ==
    CascadeStarted => AtMostOneError

\* C36 (amended): unless_errors looks at /errors once, when it is entered:
\* started with empty /errors it runs all of r1..rn as policies does, also
\* the rules after one that recorded an error.  A rule that is itself an
\* unless_errors(...) is skipped on a branch where an error was recorded
\* before it, so when every check is wrapped in an unless_errors of its own
\* every outcome holds at most 1 error.
C36_SkipsOnlyAtEntry ==
    CascadeStarted =>
        /\ results = policies(rule.rules, partial)
        /\ EachCheckWrapped(rule.rules) => AtMostOneError
        /\ rule.rules = <<RecordingCheck, RecordingCheck>> =>
              /\ Len(results.list) = 1
              /\ ErrorCount(results.list[1].partial) = 2

\* two wrapped checks: the second was skipped
C36_Witness ==
    /\ CascadeStarted
    /\ rule.rules = <<UnlessErrors(<<RecordingCheck>>), UnlessErrors(<<RecordingCheck>>)>>
    /\ Len(results.list) = 1
    /\ ErrorCount(results.list[1].partial) = 1

\* two bare checks: both ran
C36_BothRan ==
    /\ CascadeStarted
    /\ rule.rules = <<RecordingCheck, RecordingCheck>>
    /\ ErrorCount(results.list[1].partial) = 2

(***************************************************************************)
\* the fork and the later operation of the composition that was run
ForkOf(r) == IF r.op = "bind" THEN r.left ELSE r.rule_funcs[1]
LaterOf(r) == IF r.op = "bind" THEN r.right ELSE r.rule_funcs[2]

\* what a rule of the composition is run on: >> hands over the outcome as
\* it is, policies re-selects the scope the policies started in
RunInComposition(r, rule_func, incoming_value, on) ==
    IF r.op = "bind" THEN run(rule_func, incoming_value, on)
    ELSE run_scoped(rule_func, PyNone,
                    Partial_select(on, Partial_scope(partial), TRUE))

\* the branches of the fork, from the Partial that existed before it
ForkBranches(r) == RunInComposition(r, ForkOf(r), value, partial)

\* the later operation on the i-th branch alone
BranchAlone(r, i) ==
    RunInComposition(r, LaterOf(r), ForkBranches(r).list[i].value,
                     ForkBranches(r).list[i].partial)

BranchesAlone(r) == [i \in 1..Len(ForkBranches(r).list) |-> BranchAlone(r, i)]

SomeBranchRaises(r) ==
    \/ ForkBranches(r).exc
    \/ \E i \in 1..Len(ForkBranches(r).list) : BranchAlone(r, i).exc

\* C37: after a fork, the later operation gives on every branch what it
\* gives on that branch alone, computed from the branch's own Partial as the
\* fork left it and from the Partial that existed before the fork: the
\* outcomes are those of the branches alone, in order, so a branch that
\* fails contributes nothing and removes no outcome of another branch
C37_BranchesAreIsolated ==
    rule # NoRule =>
        IF SomeBranchRaises(rule) THEN results = Raised
        ELSE /\ ~results.exc
             /\ IsConcatenation(results.list, BranchesAlone(rule))

\* the fork gave two branches, the later operation failed on one of them
\* and changed the Partial of the other
C37_Witness ==
    /\ rule # NoRule
    /\ ~SomeBranchRaises(rule)
    /\ Len(ForkBranches(rule).list) = 2
    /\ BranchAlone(rule, 1).list = <<>>
    /\ Len(results.list) = 1
    /\ results.list[1].partial # ForkBranches(rule).list[2].partial
    /\ results.list[1].partial # partial

\* both branches survive a later assignment, each with its own Partial
C37_BothChanged ==
    /\ rule # NoRule
    /\ rule.op = "policies"
    /\ Len(ForkBranches(rule).list) = 2
    /\ Len(results.list) = 2
    /\ results.list[1].partial # results.list[2].partial
    /\ ForkBranches(rule).list[1].partial # results.list[1].partial

(***************************************************************************)
\* the value the request holds at /a
StoredAtA == StoredValue(partial.root, <<S_a>>)

\* what the one function of regarding("/a", f) does when it is called with v
CalledWith(f, v) ==
    CASE f = UnitF -> OneOutcome /\ results.list[1].value = v
      [] f = MatchF ->
            v.py # "list" => OneOutcome /\ results.list[1].partial = partial
      [] f = SetValueF ->
            OneOutcome /\ HoldsAt(results.list[1].partial.root, <<S_a>>, v)
      [] f = Lambda(LambdaSetValueConcat(S_y)) ->
            IsStr(v) =>
                /\ OneOutcome
                /\ HoldsAt(results.list[1].partial.root, <<S_a>>, PyStr(v.s \o S_y))
      [] OTHER -> TRUE

\* no outcome carries a node as the value the last function was called with
NoNodePassed ==
    ~results.exc => \A i \in 1..Len(results.list) : ~IsPolicyNode(results.list[i].value)

ReceivedStored ==
    /\ Len(rule.rule_funcs) = 1 => CalledWith(rule.rule_funcs[1], StoredAtA)
    /\ NoNodePassed

\* C38: regarding("/a", f1..fn) calls every rule function with the value
\* stored at /a, whatever the value, 0, "", False and [] included, and never
\* with the node
C38_StoredValueIsPassed == rule # NoRule => ReceivedStored

\* the same for the values python counts as true
C38_TrueValueIsPassed ==
    (rule # NoRule /\ Truthy(StoredAtA)) => ReceivedStored

\* regarding("/a", unit) on {"a": ""} carries the Leaf node, not ""
C38_NodePassed ==
    /\ rule = Regarding(S_abs_a, <<UnitF>>)
    /\ StoredAtA = V_empty
    /\ OneOutcome
    /\ results.list[1].value = LeafPolicyNode(Value(V_empty))

\* the function that concatenates raises on {"a": ""}
C38_FunctionRaises ==
    /\ rule # NoRule
    /\ rule.rule_funcs = <<Lambda(LambdaSetValueConcat(S_y))>>
    /\ StoredAtA = V_empty
    /\ results.exc

(***************************************************************************)
\* the builders that finalize to the rule that was run first
FinalizedFirst == {self \in ContextsOf(builders) : finalize(self) = rule}

\* the builder finalized last holds one item, the builder `self`, and has
\* neither a name nor a wrapper of its own
HoldsOnly(self) ==
    /\ FinalizedBuilder.items = <<self>>
    /\ FinalizedBuilder.wrapper = DefaultWrapper
    /\ FinalizedBuilder.ctx_name = PyNone
    /\ FinalizedBuilder.ctx_args = <<>>

PartialsOf(m) == [i \in 1..Len(m.list) |-> m.list[i].partial]

\* the rule finalized last gives on the request what the rule that was run
\* first gave, behind the test of /errors of the builder that holds it
SameOutcomesBehindParent(again) ==
    IF root_get_errors(Partial_root(partial)).exc THEN again = Raised
    ELSE IF ErrorsAtEntry(partial) THEN again = List_unit(PyNone, partial)
    ELSE /\ again.exc = results.exc
         /\ PartialsOf(again) = PartialsOf(results)

Refinalized ==
    (rule # NoRule /\ finalized # <<>>) =>
        /\ FinalizedFirst # {}
        /\ \A self \in FinalizedFirst :
               HoldsOnly(self) =>
                   SameOutcomesBehindParent(run(finalized.value, value, partial))

\* C39: finalize() leaves the builders as they are, and after a builder was
\* finalized and its rule run, finalizing that builder again gives the
\* same rule and finalizing the builder that holds it gives a rule with
\* the outcomes the first rule gave on the request
C39_FinalizeLeavesBuilder ==
    /\ [][finalized' # finalized => builders' = builders]_vars
    /\ []Refinalized

\* a sub-builder with two rules was finalized and run, then the root that
\* holds it was finalized
C39_Witness ==
    /\ rule # NoRule
    /\ finalized # <<>>
    /\ finalized.ctx = 1
    /\ \E self \in FinalizedFirst :
          /\ self.ctx = 2
          /\ HoldsOnly(self)
          /\ Len(self.items) = 2
    /\ Len(results.list) = 2
    /\ results.list[1].partial # partial

\* the same builder finalized again
C39_SameAgain ==
    /\ rule # NoRule
    /\ finalized # <<>>
    /\ finalized.ctx = 2
    /\ finalized.value = rule
    /\ Len(FinalizedBuilder.items) = 2

(***************************************************************************)
\* the Partial a run on the request object `obj` starts from when no run
\* came before it
AloneInitial(obj) == initial_partial(obj, ClassDefaults)

LastRequest == requests[Len(requests)]

\* what a run of the policy on `obj` gives alone
AloneRun(obj) == BasePolicy_run(rule, AloneInitial(obj))

RecordsError(m_results) ==
    /\ ~m_results.exc
    /\ \E i \in 1..Len(m_results.list) :
          /\ ~ErrorsAtEntry(AloneInitial(requests[1]))
          /\ ErrorsAtEntry(m_results.list[i].partial)

C40_SameRequestTwice ==
    /\ Len(requests) = 2
    /\ IsShared(requests[1].map[S_errors])
    /\ requests[1] = requests[2]
    /\ RecordsError(results)

====
